---- MODULE Spec2Model ----
(***************************************************************************)
(* Emotion Escape: the simulation core of src/main.js (game loop, player   *)
(* physics, spawning, scrolling, collisions, run state) together with the  *)
(* mood controller of src/mood.js.                                         *)
(*                                                                         *)
(* Units.  The source computes in seconds, pixels and floating point; the  *)
(* model computes the same expressions in integers:                        *)
(*   time              milliseconds        (dt, runTime, coyote, jumpBuf)  *)
(*   velocity          1e-2 px/s           (player.vx, player.vy)          *)
(*   position, size    1e-5 px             (x, y, w, h, r)                 *)
(*   scroll speed      1e-4 px/s           (speed, += 0.8*dt is exact)     *)
(*   score             1e-3 points         (score, += 2*dt is exact)       *)
(*   random draws      1e-3                (a draw u stands for u/1000)    *)
(* Products that fall between two units are truncated to the unit.         *)
(***************************************************************************)
EXTENDS Integers, Sequences, FiniteSets, TLC

\* ---------------------------------------------------------------- units
PX == 100 * 1000
VU == 10 * 10

\* ------------------------------------------------------------ constants
VW == 1024
VH == 576
groundY == (VH - 96) * PX
playerW == 46 * PX
playerH == 52 * PX
DtCap == 33
JumpBufTime == 180
CoyoteTime == 180
GroundJumpVyWeak == -650 * VU
GroundJumpVy == -700 * VU
AirJumpVy == -650 * VU
ThumpVy == 300 * VU
Accel == 140
MaxVx == 260 * VU
StartX == 160 * PX
MinX == 20 * PX
MaxX == (VW - 80) * PX

\* ---------------------------------------------------------------- utils
Min(a, b) == IF a < b THEN a ELSE b
Max(a, b) == IF a > b THEN a ELSE b
Abs(a) == IF a < 0 THEN -a ELSE a

clampAbove(v, a, b) == IF v > b THEN b ELSE v

\* Math.max(a, Math.min(b, v))
clamp(v, a, b) == Max(a, Min(b, v))

\* v * num / den, truncated toward zero
Scale(v, num, den) == IF v >= 0 THEN (v * num) \div den ELSE -(((-v) * num) \div den)

\* Math.floor of a value kept in thousandths
Floor1000(v) == v \div 1000

\* lo + (u/1000) * (hi - lo) for a random draw u
Lerp(lo, hi, u) == lo + ((hi - lo) \div 1000) * u

\* 1000 * sin(pi * w / 1000) for any integer w (Bhaskara's rational form)
SinHalf(w) ==
    LET m == w % 2000
        h == IF m < 1000 THEN m ELSE m - 1000
        p == h * (1000 - h)
        s == (1600 * p) \div ((5000000 - 4 * p) \div 10)
    IN IF m < 1000 THEN s ELSE -s

Moods == {"happy", "calm", "stressed"}

\* setMood(m) stores any m: "sad" stands for a value that is not a mood
MoodValues == Moods \cup {"sad"}

\* ---------------------------------------------------- difficulty profile
moodParamsEasyStress(m) ==
    IF m = "happy" THEN
        [speedBase |-> 300, grav |-> 1480, spawnRateBase |-> 1100,
         gapBias |-> 40, coinRate |-> 1500, droneRate |-> 180, pillarRate |-> 460]
    ELSE IF m = "stressed" THEN
        [speedBase |-> 360, grav |-> 1560, spawnRateBase |-> 1200,
         gapBias |-> -20, coinRate |-> 850, droneRate |-> 330, pillarRate |-> 400]
    ELSE
        [speedBase |-> 330, grav |-> 1520, spawnRateBase |-> 950,
         gapBias |-> 10, coinRate |-> 1000, droneRate |-> 250, pillarRate |-> 450]

moodParams(m) ==
    IF m = "happy" THEN
        [speedBase |-> 300, grav |-> 1480, spawnRateBase |-> 1100,
         gapBias |-> 40, coinRate |-> 1500, droneRate |-> 180, pillarRate |-> 460]
    ELSE IF m = "stressed" THEN
        [speedBase |-> 360, grav |-> 1560, spawnRateBase |-> 820,
         gapBias |-> -20, coinRate |-> 850, droneRate |-> 330, pillarRate |-> 400]
    ELSE
        [speedBase |-> 330, grav |-> 1520, spawnRateBase |-> 950,
         gapBias |-> 10, coinRate |-> 1000, droneRate |-> 250, pillarRate |-> 450]

\* ----------------------------------------------------------- collisions
rectOverlap(a, b) ==
    /\ a.x < b.x + b.w
    /\ a.x + a.w > b.x
    /\ a.y < b.y + b.h
    /\ a.y + a.h > b.y

circleRectOverlapStrict(c, r) ==
    LET cx == clamp(c.x, r.x, r.x + r.w)
        cy == clamp(c.y, r.y, r.y + r.h)
        dx == Abs(c.x - cx) \div 100
        dy == Abs(c.y - cy) \div 100
        cr == c.r \div 100
    IN IF dx > cr \/ dy > cr THEN FALSE
       ELSE dx * dx + dy * dy < cr * cr

\* distances are compared in 1e-3 px; a distance above the radius on one
\* axis already decides the test
circleRectOverlap(c, r) ==
    LET cx == clamp(c.x, r.x, r.x + r.w)
        cy == clamp(c.y, r.y, r.y + r.h)
        dx == Abs(c.x - cx) \div 100
        dy == Abs(c.y - cy) \div 100
        cr == c.r \div 100
    IN IF dx > cr \/ dy > cr THEN FALSE
       ELSE dx * dx + dy * dy <= cr * cr

\* ------------------------------------------------------- player physics
\* One call of handlePlayer: the new player record, the jump it performed
\* ("none", "ground", "air"), whether the landing thump fired, and vy as it
\* is when the floor is tested.
handlePlayerAirKeepsJumps(p) ==
    [p EXCEPT !.vy = AirJumpVy, !.jumpBuf = 0]

handlePlayerAir(p) ==
    [p EXCEPT !.vy = AirJumpVy, !.jumpsLeft = 0, !.jumpBuf = 0]

handlePlayerGroundKeepsCoyote(p) ==
    [p EXCEPT !.vy = GroundJumpVy, !.onGround = FALSE, !.jumpsLeft = 1, !.jumpBuf = 0]

handlePlayerGround(p) ==
    [p EXCEPT !.vy = GroundJumpVy, !.onGround = FALSE, !.coyote = 0,
              !.jumpsLeft = 1, !.jumpBuf = 0]

jumpKindExpired(p) ==
    IF p.jumpBuf >= 0 THEN
        IF p.onGround \/ p.coyote > 0 THEN "ground"
        ELSE IF p.jumpsLeft > 0 THEN "air"
        ELSE "none"
    ELSE "none"

jumpKind(p) ==
    IF p.jumpBuf > 0 THEN
        IF p.onGround \/ p.coyote > 0 THEN "ground"
        ELSE IF p.jumpsLeft > 0 THEN "air"
        ELSE "none"
    ELSE "none"

handlePlayerLandKeepsJumps(p0, dt, grav, left, right) ==
    LET dir == (IF right THEN 1 ELSE 0) - (IF left THEN 1 ELSE 0)
        vx1 == p0.vx + dir * Accel * dt
        vx2 == Scale(vx1, IF p0.onGround THEN 88 ELSE 98, 100)
        vx3 == clamp(vx2, -MaxVx, MaxVx)
        p1 == [p0 EXCEPT !.vx = vx3,
                         !.coyote = IF p0.onGround THEN CoyoteTime
                                    ELSE Max(0, p0.coyote - dt),
                         !.jumpBuf = Max(0, p0.jumpBuf - dt)]
        kind == jumpKind(p1)
        p2 == IF kind = "ground" THEN handlePlayerGround(p1)
              ELSE IF kind = "air" THEN handlePlayerAir(p1)
              ELSE p1
        vy3 == p2.vy + (grav * dt) \div 10
        x3 == p2.x + vx3 * dt
        y3 == p2.y + vy3 * dt
        floorY == groundY - playerH
        landed == y3 >= floorY
        thump == landed /\ ~p2.onGround /\ vy3 > ThumpVy
        p4 == IF landed
              THEN [p2 EXCEPT !.x = clamp(x3, MinX, MaxX), !.y = floorY, !.vy = 0,
                              !.onGround = TRUE]
              ELSE [p2 EXCEPT !.x = clamp(x3, MinX, MaxX), !.y = y3, !.vy = vy3,
                              !.onGround = FALSE]
    IN [p |-> p4, jump |-> kind, jumpVy |-> IF kind = "none" THEN 0 ELSE p2.vy,
        thump |-> thump, landed |-> landed /\ ~p0.onGround, vy |-> vy3]

handlePlayer(p0, dt, grav, left, right) ==
    LET dir == (IF right THEN 1 ELSE 0) - (IF left THEN 1 ELSE 0)
        vx1 == p0.vx + dir * Accel * dt
        vx2 == Scale(vx1, IF p0.onGround THEN 88 ELSE 98, 100)
        vx3 == clamp(vx2, -MaxVx, MaxVx)
        p1 == [p0 EXCEPT !.vx = vx3,
                         !.coyote = IF p0.onGround THEN CoyoteTime
                                    ELSE Max(0, p0.coyote - dt),
                         !.jumpBuf = Max(0, p0.jumpBuf - dt)]
        kind == jumpKind(p1)
        p2 == IF kind = "ground" THEN handlePlayerGround(p1)
              ELSE IF kind = "air" THEN handlePlayerAir(p1)
              ELSE p1
        vy3 == p2.vy + (grav * dt) \div 10
        x3 == p2.x + vx3 * dt
        y3 == p2.y + vy3 * dt
        floorY == groundY - playerH
        landed == y3 >= floorY
        thump == landed /\ ~p2.onGround /\ vy3 > ThumpVy
        p4 == IF landed
              THEN [p2 EXCEPT !.x = clamp(x3, MinX, MaxX), !.y = floorY, !.vy = 0,
                              !.onGround = TRUE, !.jumpsLeft = 2]
              ELSE [p2 EXCEPT !.x = clamp(x3, MinX, MaxX), !.y = y3, !.vy = vy3,
                              !.onGround = FALSE]
    IN [p |-> p4, jump |-> kind, jumpVy |-> IF kind = "none" THEN 0 ELSE p2.vy,
        thump |-> thump, landed |-> landed /\ ~p0.onGround, vy |-> vy3]

\* ----------------------------------------------------------------- state
VARIABLES
    playing, paused,        \* run flags
    score, hiScore,         \* score (1e-3 points), best score (points)
    stored,                 \* localStorage 'emotionEscapeHi' (-1: absent)
    runTime, timeSinceSpawn,
    speed, gravity,
    player,                 \* x, y, vx, vy, onGround, jumpsLeft, coyote, jumpBuf
    keys,                   \* held directions: [left, right]
    obstacles, coins, decor, particles,
    moodFX,                 \* sizes of the ambient pools: [clouds, stars, rain]
    currentMood,            \* mood.js
    lastEvent,              \* detail of the last 'ee:state' event
    nextId,                 \* identity given to the next coin of the run
    refresh,                \* the display's frame interval (ms)
    op,                     \* the handler that ran last
    fr,                     \* what the last update() did
    hist,                   \* history of the run and of the finished runs
    ai                      \* mood-mediapipe.v3.js: STATE and its pending calls

vars == <<playing, paused, score, hiScore, stored, runTime, timeSinceSpawn,
          speed, gravity, player, keys, obstacles, coins, decor, particles,
          moodFX, currentMood, lastEvent, nextId, refresh, op, fr, hist, ai>>

\* the entities of sq, pushed when runTime is rt
bornAt(sq, rt) == [i \in 1..Len(sq) |-> [sq[i] EXCEPT !.born = rt]]

\* ------------------------------------------------------------- particles
\* sparkle(): lifespan 0.35 + rand*0.2; dust(): 0.4 + rand*0.3
burst(n, base, range, pd) ==
    [i \in 1..n |-> [t |-> 0, lifespan |-> base + (range * pd[((i - 1) % Len(pd)) + 1]) \div 1000]]

sparkle(n, pd) == burst(n, 350, 200, pd)
dust(n, pd) == burst(n, 400, 300, pd)

updateParticles(ps, dt) == [i \in 1..Len(ps) |-> [ps[i] EXCEPT !.t = @ + dt]]

\* ----------------------------------------------------------------- decor
\* a hill's own speed is kept in whole px/s
addParallaxHill(spd, hd) ==
    [x |-> VW * PX + 400 * 100 * hd.x,
     w |-> Lerp(120 * PX, 320 * PX, hd.w),
     speed |-> ((spd \div 100) * (250 + (300 * hd.s) \div 1000)) \div (100 * 1000),
     born |-> 0]

HillCount == 18

\* buildMoodScenery: 18 fresh hills, and the pool of the current mood only
buildHills(spd, hd) ==
    [i \in 1..HillCount |-> addParallaxHill(spd, [hd EXCEPT !.x = (hd.x + 137 * i) % 1000])]

buildPools(m) ==
    IF m = "happy" THEN [clouds |-> 10, stars |-> 0, rain |-> 0]
    ELSE IF m = "calm" THEN [clouds |-> 0, stars |-> 90, rain |-> 0]
    ELSE [clouds |-> 0, stars |-> 0, rain |-> 90]

updateMoodFXDropsRain(fx, m) ==
    IF m = "happy" \/ m = "calm" THEN fx
    ELSE [fx EXCEPT !.rain = Max(0, @ - 1)]

\* updateMoodFX: forEach over the pool of the mood, entries recycled in place
updateMoodFX(fx, m) ==
    IF m = "happy" THEN [fx EXCEPT !.clouds = @]
    ELSE IF m = "calm" THEN [fx EXCEPT !.stars = @]
    ELSE [fx EXCEPT !.rain = @]

\* -------------------------------------------------------------- spawning
\* born = runTime when the entity is pushed (set by bornAt)
Block(x, y, w, h) ==
    [type |-> "block", x |-> x, y |-> y, w |-> w, h |-> h, r |-> 0, vy |-> 0, phase |-> 0,
     born |-> 0]
Gate(x, y, w, h) ==
    [type |-> "gate", x |-> x, y |-> y, w |-> w, h |-> h, r |-> 0, vy |-> 0, phase |-> 0,
     born |-> 0]
Drone(x, y, r, vy, phase) ==
    [type |-> "drone", x |-> x, y |-> y, w |-> 0, h |-> 0, r |-> r, vy |-> vy, phase |-> phase,
     born |-> 0]

spawnBlockPattern(m, d) ==
    LET space == IF m = "happy" THEN 140 ELSE 120
        baseH == 50 + (110 * d.baseH) \div 1000
        w == Lerp(50 * PX, 92 * PX, d.w)
        h2 == clamp(baseH + (IF d.sign < 500 THEN -24 ELSE 24), 60, 160)
    IN IF d.single < 650
       THEN << Block((VW + 40) * PX, groundY - baseH * PX, w, baseH * PX) >>
       ELSE << Block((VW + 20) * PX, groundY - baseH * PX, w, baseH * PX),
               Block((VW + 20 + space) * PX, groundY - h2 * PX, w, h2 * PX) >>

spawnDrone(m, d) ==
    LET r == Lerp(22 * PX, 32 * PX, d.rad)
        y == groundY - Lerp(140 * PX, 340 * PX, d.y)
        vy == (IF m = "stressed" THEN 100 ELSE 70) * VU + 7 * d.vy
    IN << Drone((VW + 80) * PX, y, r, vy, (6283 * d.phase) \div 1000) >>

spawnGapWithBridge(mp, m, d) ==
    LET gap == Lerp(160 * PX, 250 * PX, d.gap) + mp.gapBias * PX
        w == Lerp(28 * PX, 56 * PX, d.w)
        h == Lerp(50 * PX, 130 * PX, d.h)
        h72 == (h \div 100) * 72
        pillars == << Block((VW + 20) * PX, groundY - h, w, h),
                      Block((VW + 20) * PX + w + gap, groundY - h72, w, h72) >>
    IN IF d.gate < (IF m = "happy" THEN 180 ELSE 280)
       THEN Append(pillars, Gate((VW + 20 + 80) * PX,
                                 groundY - Lerp(200 * PX, 320 * PX, d.gy),
                                 Lerp(140 * PX, 260 * PX, d.gateW), 12 * PX))
       ELSE pillars

\* coins get consecutive identities from id0 on
spawnCoinsArc(d, id0) ==
    LET cy == groundY - Lerp(120 * PX, 240 * PX, d.cy)
        n == 5 + (4 * d.n) \div 1000
    IN [k \in 1..n |->
          [id |-> id0 + k - 1,
           x |-> (VW + 60) * PX + (k - 1) * 28 * PX,
           y |-> cy - SinHalf(((k - 1) * 1000) \div (n - 1)) * 4600,
           r |-> 9 * PX,
           worth |-> IF d.worth[k] < 120 THEN 5 ELSE 1,
           born |-> 0]]

spawnRateNoFloor(mp, rt) == Min(mp.spawnRateBase * 1000 - 6 * rt, 1150000)

\* the spawn interval in microseconds
spawnRate(mp, rt) == clamp(mp.spawnRateBase * 1000 - 6 * rt, 550000, 1150000)

\* the generator spawnLogic picks for the draw r
spawnPatternOwnCutoffs(mp, r) ==
    IF r < mp.pillarRate THEN "block"
    ELSE IF r < mp.droneRate THEN "drone"
    ELSE "gap"

spawnPatternNoGap(mp, r) ==
    IF r < mp.pillarRate THEN "block" ELSE "drone"

spawnPattern(mp, r) ==
    IF r < mp.pillarRate THEN "block"
    ELSE IF r < mp.pillarRate + mp.droneRate THEN "drone"
    ELSE "gap"

\* spawnLogic: the obstacles, coins and hills one call appends, for the
\* draws d (spawn event) and hd (hill)
spawnLogic(tss, rt, mp, m, spd, id0, d, hd) ==
    LET due == tss * 1000 >= spawnRate(mp, rt)
        obs == IF ~due THEN << >>
               ELSE IF spawnPattern(mp, d.r) = "block" THEN spawnBlockPattern(m, d)
               ELSE IF spawnPattern(mp, d.r) = "drone" THEN spawnDrone(m, d)
               ELSE spawnGapWithBridge(mp, m, d)
        cs == IF due /\ d.coin * 1000 < 750 * mp.coinRate
              THEN spawnCoinsArc(d, id0) ELSE << >>
        hills == IF hd.p < 80 THEN << addParallaxHill(spd, hd) >> ELSE << >>
    IN [due |-> due, tss |-> IF due THEN 0 ELSE tss, obs |-> bornAt(obs, rt),
        coins |-> bornAt(cs, rt), hills |-> bornAt(hills, rt), pattern |-> IF due THEN spawnPattern(mp, d.r) ELSE "none",
        r |-> IF due THEN d.r ELSE -1, d |-> d]

\* ---------------------------------------------- the other game loop file
\* part_002 hands the profile object of update() to the generators and to
\* updateMoodFX, which compare it with === to the object a new call of
\* moodParams(...) returns.  An object is its fields and the number of its
\* allocation; === on objects compares the allocation.
moodParamsP2(m, ref) == [mp |-> moodParams(m), ref |-> ref]

sameObject(a, b) == a.ref = b.ref

spawnBlockPatternP2(mood, d, ref) ==
    LET space == IF sameObject(mood, moodParamsP2("happy", ref)) THEN 140 ELSE 120
        baseH == 50 + (110 * d.baseH) \div 1000
        w == Lerp(50 * PX, 92 * PX, d.w)
        h2 == clamp(baseH + (IF d.sign < 500 THEN -24 ELSE 24), 60, 160)
    IN IF d.single < 650
       THEN << Block((VW + 40) * PX, groundY - baseH * PX, w, baseH * PX) >>
       ELSE << Block((VW + 20) * PX, groundY - baseH * PX, w, baseH * PX),
               Block((VW + 20 + space) * PX, groundY - h2 * PX, w, h2 * PX) >>

spawnDroneP2(mood, d, ref) ==
    LET r == Lerp(22 * PX, 32 * PX, d.rad)
        y == groundY - Lerp(140 * PX, 340 * PX, d.y)
        vy == (IF sameObject(mood, moodParamsP2("stressed", ref)) THEN 100 ELSE 70) * VU
              + 7 * d.vy
    IN << Drone((VW + 80) * PX, y, r, vy, (6283 * d.phase) \div 1000) >>

spawnGapWithBridgeP2(mood, d, ref) ==
    LET gap == Lerp(160 * PX, 250 * PX, d.gap) + mood.mp.gapBias * PX
        w == Lerp(28 * PX, 56 * PX, d.w)
        h == Lerp(50 * PX, 130 * PX, d.h)
        h72 == (h \div 100) * 72
        pillars == << Block((VW + 20) * PX, groundY - h, w, h),
                      Block((VW + 20) * PX + w + gap, groundY - h72, w, h72) >>
    IN IF d.gate < (IF sameObject(mood, moodParamsP2("happy", ref)) THEN 180 ELSE 280)
       THEN Append(pillars, Gate((VW + 20 + 80) * PX,
                                 groundY - Lerp(200 * PX, 320 * PX, d.gy),
                                 Lerp(140 * PX, 260 * PX, d.gateW), 12 * PX))
       ELSE pillars

\* the pool updateMoodFX(dt, mood) of part_002 iterates over
updateMoodFXP2(mood, ref) ==
    IF sameObject(mood, moodParamsP2("happy", ref)) THEN "clouds"
    ELSE IF sameObject(mood, moodParamsP2("calm", ref + 1)) THEN "stars"
    ELSE "rain"

\* the pool updateMoodFX(dt) of part_001 iterates over
updateMoodFXPool(m) ==
    IF m = "happy" THEN "clouds"
    ELSE IF m = "calm" THEN "stars"
    ELSE "rain"

\* update() of part_002 for the mood m: what a spawn event with the draws d
\* pushes, and the pool the ambient update moves
updateP2(m, due, d) ==
    LET mood == moodParamsP2(m, 0)
        obs == IF ~due THEN << >>
               ELSE IF spawnPattern(mood.mp, d.r) = "block" THEN spawnBlockPatternP2(mood, d, 1)
               ELSE IF spawnPattern(mood.mp, d.r) = "drone" THEN spawnDroneP2(mood, d, 1)
               ELSE spawnGapWithBridgeP2(mood, d, 1)
    IN [obs |-> obs, pool |-> updateMoodFXP2(mood, 2)]

\* --------------------------------------------------------------- scroll
moveObstacle(o, spd, dt) ==
    IF o.type = "block" \/ o.type = "gate"
    THEN [o EXCEPT !.x = @ - (spd * dt) \div 100]
    ELSE LET ph == o.phase + dt
         IN [o EXCEPT !.x = @ - (spd * dt) \div 100,
                      !.phase = ph,
                      !.y = @ + Scale(o.vy * dt, SinHalf((ph * 7003) \div 10000), 1000)]

moveWorldHillsStay(w, spd, dt) ==
    [decor |-> w.decor,
     obstacles |-> [i \in 1..Len(w.obstacles) |-> moveObstacle(w.obstacles[i], spd, dt)],
     coins |-> [i \in 1..Len(w.coins) |-> [w.coins[i] EXCEPT !.x = @ - (spd * dt) \div 100]]]

moveWorld(w, spd, dt) ==
    [decor |-> [i \in 1..Len(w.decor) |->
                   [w.decor[i] EXCEPT !.x = @ - w.decor[i].speed * dt * 100]],
     obstacles |-> [i \in 1..Len(w.obstacles) |-> moveObstacle(w.obstacles[i], spd, dt)],
     coins |-> [i \in 1..Len(w.coins) |-> [w.coins[i] EXCEPT !.x = @ - (spd * dt) \div 100]]]

\* ----------------------------------------------------------- collisions
playerRect(p) == [x |-> p.x, y |-> p.y, w |-> playerW, h |-> playerH]

obstacleHitsNoDrone(o, p) ==
    IF o.type = "block" \/ o.type = "gate" THEN rectOverlap(playerRect(p), o)
    ELSE FALSE

obstacleHits(o, p) ==
    IF o.type = "block" \/ o.type = "gate" THEN rectOverlap(playerRect(p), o)
    ELSE IF o.type = "drone" THEN circleRectOverlap(o, playerRect(p))
    ELSE FALSE

\* the first loop of handleCollisions: does it reach gameOver() from index i on
RECURSIVE firstHit(_, _, _)
firstHit(obs, p, i) ==
    IF i > Len(obs) THEN FALSE
    ELSE IF obstacleHits(obs[i], p) THEN TRUE
    ELSE firstHit(obs, p, i + 1)

OffScreen == -9999 * PX

markPickedStays(c) == c

\* c.x = -9999
markPicked(c) == [c EXCEPT !.x = OffScreen]

\* the second loop: acc = [score, coins, picked, bursts], coin i is next
RECURSIVE collectCoins(_, _, _)
collectCoins(acc, p, i) ==
    IF i > Len(acc.coins) THEN acc
    ELSE IF circleRectOverlap(acc.coins[i], playerRect(p))
         THEN collectCoins([score |-> acc.score + acc.coins[i].worth * 1000,
                            coins |-> [acc.coins EXCEPT ![i] = markPicked(@)],
                            picked |-> Append(acc.picked, acc.coins[i].id),
                            bursts |-> acc.bursts + 1],
                           p, i + 1)
         ELSE collectCoins(acc, p, i + 1)

handleCollisions(obs, cs, p, sc) ==
    IF firstHit(obs, p, 1)
    THEN [hit |-> TRUE, score |-> sc, coins |-> cs, picked |-> << >>, bursts |-> 0]
    ELSE LET acc == collectCoins([score |-> sc, coins |-> cs, picked |-> << >>, bursts |-> 0], p, 1)
         IN [hit |-> FALSE, score |-> acc.score, coins |-> acc.coins,
             picked |-> acc.picked, bursts |-> acc.bursts]

\* ---------------------------------------------------------------- prune
keepObstacle(o) == o.x + o.w > -180 * PX /\ o.y < (VH + 400) * PX
keepCoin(c) == c.x + c.r > -160 * PX
keepDecorLeftEdge(d) == d.x >= -120 * PX

keepDecor(d) == d.x + d.w > -120 * PX
keepParticle(q) == q.t < q.lifespan


SelectKept(sq, Keep(_)) == SelectSeq(sq, Keep)

\* ---------------------------------------------------------- observations
\* fr: what the last call of update() did (NoFrame when update() did not
\* run): pre = the player when the call began, jump = the jump it performed,
\* overlap / over = the obstacle overlap and the coins overlapped once physics
\* and scrolling were done, scorePre = the score before handleCollisions,
\* picked = the coins credited in order, recredit = a coin was credited that
\* had been credited before, reqAt / landReq = hist's values when it began;
\* pausedWas: the paused flag before the last call, when that was pauseGame()
\* or a visibilitychange; hiPre = hiScore when update() began; emitted = the
\* 'ee:state' events the last call dispatched; pattern = the generator
\* spawnLogic picked; rtPre, tssPre = runTime, timeSinceSpawn when it began;
\* moodWas: the mood before the last call, when that was setMood(), and
\* notified: the listeners that call invoked; spawnedX = the x the obstacles
\* spawnLogic added were created at; pruned = the entities the four filters
\* at the end of update() removed; spawnGap = the simulated time since the
\* previous spawn event of the run, in a frame with a spawn event (-1: none);
\* drawR = the draw r of the frame's spawn event (-1: none); speedPre = speed
\* before the frame; landVy = player.vy when handlePlayer tests the floor;
\* all = the four collections as the filters at the end of update() find them;
\* draw = the draws of the frame's spawn event, pushed = the obstacles it
\* pushed, pool = the ambient pool the frame moved; p2 = what update() of
\* part_002 pushes and moves in the same mood with the same draws; score0 =
\* the score before the frame
NoFrame ==
    [ran |-> FALSE, dt |-> 0, pre |-> << >>, jump |-> "none", jumpVy |-> 0,
     thump |-> FALSE,
     landed |-> FALSE, spawned |-> FALSE, overlap |-> FALSE, hit |-> FALSE,
     scorePre |-> 0, over |-> {}, worthOver |-> 0, picked |-> << >>,
     recredit |-> FALSE, reqAt |-> -1, landReq |-> -1, pausedWas |-> FALSE,
     hiPre |-> 0, emitted |-> << >>, pattern |-> "none", rtPre |-> 0, tssPre |-> 0,
     moodWas |-> "", notified |-> 0, spawnedX |-> << >>, pruned |-> 0,
     spawnGap |-> -1, drawR |-> -1, speedPre |-> 0, landVy |-> 0,
     all |-> [obstacles |-> << >>, coins |-> << >>, decor |-> << >>,
              particles |-> << >>],
     draw |-> << >>, pushed |-> << >>, pool |-> "", score0 |-> 0,
     p2 |-> [obs |-> << >>, pool |-> ""], held |-> FALSE]

\* hist: jumps = the doJump() arguments since the player was last grounded;
\* runs = startGame() calls; overs = floor(score) of every game-over; hi0 = the
\* best score loaded at startup; credited = the coins credited in this run;
\* airTime = simulated time since the frame in which the player left the
\* ground; reqAt = airTime when the latest jump request arrived (-1: it
\* arrived on the ground); reqAge = simulated time since that request (-1
\* once a jump has consumed it);
\* landReq = reqAge at the end of the frame in which the player landed;
\* runOvers = gameOver() calls since the last startGame(); back = update()
\* calls of this run with a negative dt; spawnAt = runTime at the last spawn
\* event of the run (-1: none yet); startMood = getMood() at the last
\* startGame() or resetGame(); owed = 1 from a jump request on, less the
\* jumps performed since (0 before the first request of a run); worthSum =
\* the worths of the coins picked up in this run, added up; held = whether
\* a jump was requested while paused since the last update()
NoRunHist(h) ==
    [h EXCEPT !.jumps = << >>, !.credited = {}, !.airTime = 0, !.reqAt = -1,
              !.reqAge = -1, !.landReq = -1, !.back = 0, !.spawnAt = -1,
              !.owed = 0, !.worthSum = 0, !.held = FALSE]

AgeCap == JumpBufTime + 1
AirCap == 2 * CoyoteTime
JumpsCap == 3

RECURSIVE SumWorth(_, _)
SumWorth(cs, S) ==
    IF cs = << >> THEN 0
    ELSE (IF Head(cs).id \in S THEN Head(cs).worth ELSE 0) + SumWorth(Tail(cs), S)

RECURSIVE Repeat(_, _)
Repeat(sq, n) == IF n = 0 THEN << >> ELSE sq \o Repeat(sq, n - 1)

SeqRange(sq) == {sq[i] : i \in 1..Len(sq)}

MaxOf(S) == CHOOSE m \in S : \A x \in S : m >= x

\* the coins and the obstacles the player overlaps once physics and scrolling
\* are done
coinsOver(cs, pr) ==
    {cs[i].id : i \in {j \in 1..Len(cs) : circleRectOverlap(cs[j], pr)}}

obstacleOver(obs, pr) ==
    \E i \in 1..Len(obs) :
        \/ obs[i].type \in {"block", "gate"} /\ rectOverlap(pr, obs[i])
        \/ obs[i].type = "drone" /\ circleRectOverlap(obs[i], pr)

\* ------------------------------------------------------------- emitState
emitStateNotPaused(pl, pa) == [playing |-> pl, paused |-> FALSE]

\* emitState(): the detail of the event it dispatches
emitState(pl, pa) == [playing |-> pl, paused |-> pa]

\* no 'ee:state' event dispatched yet
NoEvent == [playing |-> FALSE, paused |-> FALSE, none |-> TRUE]

\* ------------------------------------------------------------ resetRound
startPlayer ==
    [x |-> StartX, y |-> groundY - playerH, vx |-> 0, vy |-> 0, onGround |-> TRUE,
     jumpsLeft |-> 2, coyote |-> 0, jumpBuf |-> 0]

resetRoundKeepsScore ==
    /\ speed' = moodParams(currentMood).speedBase * 10000
    /\ gravity' = moodParams(currentMood).grav
    /\ player' = startPlayer
    /\ score' = score

resetRound ==
    /\ speed' = moodParams(currentMood).speedBase * 10000
    /\ gravity' = moodParams(currentMood).grav
    /\ player' = startPlayer
    /\ score' = 0

\* ------------------------------------------------------- buildMoodScenery
buildMoodScenery(m, bd) ==
    /\ decor' = bornAt(buildHills(speed, bd), runTime')
    /\ moodFX' = buildPools(m)

\* -------------------------------------------------------------- gameOver
gameOverHiLast(hi, sc) == Floor1000(sc)

\* hiScore = Math.max(hiScore, Math.floor(score))
gameOverHi(hi, sc) == Max(hi, Floor1000(sc))

gameOverNoPersist(hi, sc, st, pa) ==
    [playing |-> FALSE, hiScore |-> gameOverHi(hi, sc), stored |-> st,
     event |-> emitState(FALSE, pa)]

\* gameOver(): the new playing, hiScore, localStorage 'emotionEscapeHi' and
\* the event emitState() dispatches
gameOver(hi, sc, st, pa) ==
    [playing |-> FALSE, hiScore |-> gameOverHi(hi, sc),
     stored |-> gameOverHi(hi, sc), event |-> emitState(FALSE, pa)]

\* ---------------------------------------------------------------- update
\* the end of update(): every intermediate value of the frame is computed
\* once by update and handed over
frameEnd(dt, rt, sc, mp, spd, hp, sl, w, hc, over, overlap, pd) ==
    LET jumpParts == IF hp.jump = "ground" THEN sparkle(10, pd)
                     ELSE IF hp.jump = "air" THEN sparkle(8, pd)
                     ELSE << >>
        thumpParts == IF hp.thump THEN dust(8, pd) ELSE << >>
        parts == particles \o jumpParts \o thumpParts \o Repeat(sparkle(12, pd), hc.bursts)
        age == IF hist.reqAge < 0 \/ hp.jump # "none" THEN -1
               ELSE Min(AgeCap, hist.reqAge + dt)
        air == IF hp.p.onGround \/ player.onGround THEN 0
               ELSE Min(AirCap, hist.airTime + dt)
        go == gameOver(hiScore, hc.score, stored, paused)
        js == IF hp.p.onGround THEN << >>
              ELSE IF hp.jump = "none" \/ Len(hist.jumps) >= JumpsCap THEN hist.jumps
              ELSE Append(hist.jumps, hp.jumpVy)
    IN /\ runTime' = rt
       /\ score' = hc.score
       /\ gravity' = mp.grav
       /\ speed' = spd
       /\ player' = hp.p
       /\ timeSinceSpawn' = sl.tss
       /\ nextId' = nextId + Len(sl.coins)
       /\ obstacles' = SelectKept(w.obstacles, keepObstacle)
       /\ coins' = SelectKept(hc.coins, keepCoin)
       /\ decor' = SelectKept(w.decor, keepDecor)
       /\ particles' = SelectKept(updateParticles(parts, dt), keepParticle)
       /\ IF hc.hit
          THEN /\ playing' = go.playing
               /\ hiScore' = go.hiScore
               /\ stored' = go.stored
               /\ lastEvent' = go.event
          ELSE UNCHANGED <<playing, hiScore, stored, lastEvent>>
       /\ fr' = [ran |-> TRUE, dt |-> dt, pre |-> player, jump |-> hp.jump,
                 jumpVy |-> hp.jumpVy, thump |-> hp.thump, landed |-> hp.landed, spawned |-> sl.due,
                 overlap |-> overlap, hit |-> hc.hit, scorePre |-> sc, over |-> over,
                 worthOver |-> SumWorth(w.coins, over), picked |-> hc.picked,
                 recredit |-> \E i \in 1..Len(hc.picked) : hc.picked[i] \in hist.credited,
                 reqAt |-> hist.reqAt, landReq |-> hist.landReq, pausedWas |-> FALSE,
                 hiPre |-> hiScore,
                 emitted |-> IF hc.hit THEN << go.event >> ELSE << >>,
                 pattern |-> sl.pattern, rtPre |-> runTime, tssPre |-> timeSinceSpawn,
                 moodWas |-> "", notified |-> 0,
                 spawnedX |-> [i \in 1..Len(sl.obs) |-> sl.obs[i].x],
                 pruned |-> Len(w.obstacles) + Len(hc.coins) + Len(w.decor) + Len(parts)
                            - Len(obstacles') - Len(coins') - Len(decor')
                            - Len(particles'),
                 spawnGap |-> IF sl.due /\ hist.spawnAt >= 0 THEN rt - hist.spawnAt
                              ELSE -1,
                 drawR |-> sl.r, speedPre |-> speed, landVy |-> hp.vy,
                 all |-> [obstacles |-> w.obstacles, coins |-> hc.coins,
                          decor |-> w.decor,
                          particles |-> updateParticles(parts, dt)],
                 draw |-> IF sl.due THEN sl.d ELSE << >>,
                 pushed |-> sl.obs, pool |-> updateMoodFXPool(currentMood),
                 score0 |-> score,
                 p2 |-> updateP2(currentMood, sl.due, sl.d),
                 held |-> hist.held]
       /\ hist' = [hist EXCEPT
                     !.jumps = js,
                     !.credited = @ \cup SeqRange(hc.picked),
                     !.overs = IF hc.hit THEN @ \cup {Floor1000(hc.score)} ELSE @,
                     !.runOvers = IF hc.hit THEN @ + 1 ELSE @,
                     !.back = IF dt < 0 THEN @ + 1 ELSE @,
                     !.spawnAt = IF sl.due THEN rt ELSE @,
                     !.worthSum = @ + SumWorth(w.coins, SeqRange(hc.picked)),
                     !.owed = IF hp.jump = "none" THEN @ ELSE Max(-1, @ - 1),
                     !.airTime = air,
                     !.reqAge = age,
                     !.landReq = IF hp.landed THEN age ELSE -1,
                     !.held = FALSE]
       /\ moodFX' = updateMoodFX(moodFX, currentMood)
       /\ UNCHANGED <<paused, keys, currentMood, refresh>>

updateScrollsFirst(dt, SD, HD, pd) ==
    LET rt == runTime + dt
        sc == score + 2 * dt
        mp == moodParams(currentMood)
        spd == speed + 8 * dt
        tss == timeSinceSpawn + dt
        due == tss * 1000 >= spawnRate(mp, rt)
    IN \E hp \in {handlePlayer(player, dt, mp.grav, keys.left, keys.right)} :
       \E sd \in (IF due THEN SD ELSE {CHOOSE x \in SD : TRUE}), hd \in HD :
       \E sl \in {spawnLogic(tss, rt, mp, currentMood, spd, nextId, sd, hd)} :
       \E mw \in {moveWorld([decor |-> decor, obstacles |-> obstacles,
                             coins |-> coins], spd, dt)} :
       \E w \in {[decor |-> mw.decor \o sl.hills,
                   obstacles |-> mw.obstacles \o sl.obs,
                   coins |-> mw.coins \o sl.coins]} :
       \E hc \in {handleCollisions(w.obstacles, w.coins, hp.p, sc)} :
           frameEnd(dt, rt, sc, mp, spd, hp, sl, w, hc,
                    coinsOver(w.coins, playerRect(hp.p)),
                    obstacleOver(w.obstacles, playerRect(hp.p)), pd)

update(dt, SD, HD, pd) ==
    LET rt == runTime + dt
        sc == score + 2 * dt
        mp == moodParams(currentMood)
        spd == speed + 8 * dt
        tss == timeSinceSpawn + dt
        due == tss * 1000 >= spawnRate(mp, rt)
    IN \E hp \in {handlePlayer(player, dt, mp.grav, keys.left, keys.right)} :
       \E sd \in (IF due THEN SD ELSE {CHOOSE x \in SD : TRUE}), hd \in HD :
       \E sl \in {spawnLogic(tss, rt, mp, currentMood, spd, nextId, sd, hd)} :
       \E w \in {moveWorld([decor |-> decor \o sl.hills,
                            obstacles |-> obstacles \o sl.obs,
                            coins |-> coins \o sl.coins], spd, dt)} :
       \E hc \in {handleCollisions(w.obstacles, w.coins, hp.p, sc)} :
           frameEnd(dt, rt, sc, mp, spd, hp, sl, w, hc,
                    coinsOver(w.coins, playerRect(hp.p)),
                    obstacleOver(w.obstacles, playerRect(hp.p)), pd)

\* ------------------------------------------------------------------ loop
shouldUpdateWhilePaused(pl, pa) == pl

\* if (playing && !paused) update(dt)
shouldUpdate(pl, pa) == pl /\ ~pa

LoopDecaysJumpBuf(d, SD, HD, pd) ==
    /\ UNCHANGED ai
    /\ op' = "loop"
    /\ IF shouldUpdate(playing, paused)
       THEN update(Min(DtCap, d), SD, HD, pd)
       ELSE /\ fr' = NoFrame
            /\ player' = [player EXCEPT !.jumpBuf = Max(0, @ - Min(DtCap, d))]
            /\ UNCHANGED <<playing, paused, score, hiScore, stored, runTime,
                           timeSinceSpawn, speed, gravity, keys, obstacles,
                           coins, decor, particles, moodFX, currentMood, lastEvent,
                           nextId, refresh, hist>>

\* one animation frame, d milliseconds after the previous one
Loop(d, SD, HD, pd) ==
    /\ UNCHANGED ai
    /\ op' = "loop"
    /\ IF shouldUpdate(playing, paused)
       THEN update(Min(DtCap, d), SD, HD, pd)
       ELSE /\ fr' = NoFrame
            /\ UNCHANGED <<playing, paused, score, hiScore, stored, runTime,
                           timeSinceSpawn, speed, gravity, player, keys, obstacles,
                           coins, decor, particles, moodFX, currentMood, lastEvent,
                           nextId, refresh, hist>>

\* ------------------------------------------------------------ public API
StartGame(bd) ==
    /\ UNCHANGED ai
    /\ op' = "start"
    /\ obstacles' = << >> /\ coins' = << >> /\ particles' = << >>
    /\ runTime' = 0 /\ timeSinceSpawn' = 0
    /\ buildMoodScenery(currentMood, bd)
    /\ resetRound
    /\ playing' = TRUE /\ paused' = FALSE
    /\ lastEvent' = emitState(TRUE, FALSE)
    /\ nextId' = 0
    /\ fr' = NoFrame
    /\ hist' = [NoRunHist(hist) EXCEPT !.runs = @ + 1, !.runOvers = 0,
                                       !.startMood = currentMood]
    /\ UNCHANGED <<hiScore, stored, keys, currentMood, refresh>>

PauseGameOnly ==
    /\ UNCHANGED ai
    /\ op' = "pause"
    /\ paused' = TRUE
    /\ lastEvent' = emitState(playing, TRUE)
    /\ fr' = [NoFrame EXCEPT !.pausedWas = paused]
    /\ UNCHANGED <<playing, score, hiScore, stored, runTime, timeSinceSpawn, speed,
                   gravity, player, keys, obstacles, coins, decor, particles, moodFX,
                   currentMood, nextId, refresh, hist>>

PauseGame ==
    /\ UNCHANGED ai
    /\ op' = "pause"
    /\ paused' = ~paused
    /\ lastEvent' = emitState(playing, ~paused)
    /\ fr' = [NoFrame EXCEPT !.pausedWas = paused]
    /\ UNCHANGED <<playing, score, hiScore, stored, runTime, timeSinceSpawn, speed,
                   gravity, player, keys, obstacles, coins, decor, particles, moodFX,
                   currentMood, nextId, refresh, hist>>

ResetGameKeepsPaused(bd) ==
    /\ UNCHANGED ai
    /\ op' = "reset"
    /\ playing' = FALSE /\ paused' = paused
    /\ obstacles' = << >> /\ coins' = << >> /\ particles' = << >>
    /\ runTime' = 0 /\ timeSinceSpawn' = 0
    /\ buildMoodScenery(currentMood, bd)
    /\ resetRound
    /\ lastEvent' = emitState(FALSE, paused)
    /\ nextId' = 0
    /\ fr' = NoFrame
    /\ hist' = [NoRunHist(hist) EXCEPT !.startMood = currentMood]
    /\ UNCHANGED <<hiScore, stored, keys, currentMood, refresh>>

ResetGame(bd) ==
    /\ UNCHANGED ai
    /\ op' = "reset"
    /\ playing' = FALSE /\ paused' = FALSE
    /\ obstacles' = << >> /\ coins' = << >> /\ particles' = << >>
    /\ runTime' = 0 /\ timeSinceSpawn' = 0
    /\ buildMoodScenery(currentMood, bd)
    /\ resetRound
    /\ lastEvent' = emitState(FALSE, FALSE)
    /\ nextId' = 0
    /\ fr' = NoFrame
    /\ hist' = [NoRunHist(hist) EXCEPT !.startMood = currentMood]
    /\ UNCHANGED <<hiScore, stored, keys, currentMood, refresh>>

\* 'visibilitychange' with document.hidden = hidden
VisibilityChangeIgnored(hidden) ==
    /\ UNCHANGED ai
    /\ op' = IF hidden THEN "hide" ELSE "show"
    /\ fr' = [NoFrame EXCEPT !.pausedWas = paused]
    /\ UNCHANGED <<playing, paused, score, hiScore, stored, runTime, timeSinceSpawn,
                   speed, gravity, player, keys, obstacles, coins, decor, particles,
                   moodFX, currentMood, lastEvent, nextId, refresh, hist>>

VisibilityChange(hidden) ==
    /\ UNCHANGED ai
    /\ op' = IF hidden THEN "hide" ELSE "show"
    /\ paused' = (hidden \/ paused)
    /\ lastEvent' = IF hidden THEN emitState(playing, TRUE) ELSE lastEvent
    /\ fr' = [NoFrame EXCEPT !.pausedWas = paused]
    /\ UNCHANGED <<playing, score, hiScore, stored, runTime, timeSinceSpawn, speed,
                   gravity, player, keys, obstacles, coins, decor, particles, moodFX,
                   currentMood, nextId, refresh, hist>>

\* ---------------------------------------------------------------- inputs
\* keydown of space / arrowup / w, the jump button, a swipe up
JumpRequest ==
    /\ UNCHANGED ai
    /\ op' = "jump"
    /\ player' = [player EXCEPT !.jumpBuf = JumpBufTime]
    /\ fr' = NoFrame
    /\ hist' = [hist EXCEPT !.reqAt = IF player.onGround THEN -1 ELSE hist.airTime,
                            !.reqAge = IF player.onGround THEN -1 ELSE 0,
                            !.landReq = -1,
                            !.owed = 1,
                            !.held = @ \/ paused]
    /\ UNCHANGED <<playing, paused, score, hiScore, stored, runTime, timeSinceSpawn,
                   speed, gravity, keys, obstacles, coins, decor, particles, moodFX,
                   currentMood, lastEvent, nextId, refresh>>

\* keydown / keyup (or touch) of a direction
SetKeys(l, r) ==
    /\ UNCHANGED ai
    /\ op' = "key"
    /\ keys # [left |-> l, right |-> r]
    /\ keys' = [left |-> l, right |-> r]
    /\ fr' = NoFrame
    /\ UNCHANGED <<playing, paused, score, hiScore, stored, runTime, timeSinceSpawn,
                   speed, gravity, player, obstacles, coins, decor, particles, moodFX,
                   currentMood, lastEvent, nextId, refresh, hist>>

SetMoodResetsRound(m, bd) ==
    /\ op' = "mood"
    /\ currentMood' = m
    /\ runTime' = runTime
    /\ buildMoodScenery(m, bd)
    /\ speed' = moodParams(m).speedBase * 10000
    /\ fr' = [NoFrame EXCEPT !.moodWas = currentMood, !.notified = 1]
    /\ UNCHANGED <<playing, paused, score, hiScore, stored, timeSinceSpawn,
                   gravity, player, keys, obstacles, coins, particles,
                   lastEvent, nextId, refresh, hist>>

\* mood.js setMood(m); initGame() subscribed buildMoodScenery
SetMood(m, bd) ==
    /\ op' = "mood"
    /\ currentMood' = m
    /\ runTime' = runTime
    /\ buildMoodScenery(m, bd)
    /\ fr' = [NoFrame EXCEPT !.moodWas = currentMood, !.notified = 1]
    /\ UNCHANGED <<playing, paused, score, hiScore, stored, timeSinceSpawn,
                   speed, gravity, player, keys, obstacles, coins, particles,
                   lastEvent, nextId, refresh, hist>>

\* -------------------------------------------------------------- detector
\* STATE of mood-mediapipe.v3.js at module load.  Scores are in 1e-6; made =
\* FaceLandmarkers created, loops = tick chains started by loop(); calls =
\* the pending and finished calls of enableMoodAI; last = what the latest
\* detect() found and the state it found it in, man = whether setMood() has
\* been called from the keys since, n / nf / recal / keys = detections,
\* detections without a face, recalibrations and mood key presses so far.
Alpha == 250
CalibSamples == 12
ModelUrls == 3

NoAI ==
    [enabled |-> FALSE, running |-> FALSE, made |-> 0, loops |-> 0,
     calibrated |-> FALSE, calibSamples |-> 0,
     calib |-> [jawOpen0 |-> 20000, browLower0 |-> 20000, smile0 |-> 20000],
     h |-> 0, s |-> 0, mood |-> "calm",
     calls |-> << >>,
     last |-> [kind |-> "none", calibrated |-> FALSE, calibSamples |-> 0,
               mood |-> "calm", next |-> "calm"],
     man |-> FALSE, n |-> 0, nf |-> 0, recal |-> 0, keys |-> 0]

\* ------------------------------------------------------------------ init
\* the module's initial values followed by initGame(): resetGame() with the
\* initial speed 320 and the initial mood 'calm'
InitSpeed == 320
InitHiScores == {0, 4}

InitWith(bd, R) ==
    /\ playing = FALSE /\ paused = FALSE
    /\ score = 0
    /\ hiScore \in InitHiScores
    /\ stored = IF hiScore = 0 THEN -1 ELSE hiScore
    /\ runTime = 0 /\ timeSinceSpawn = 0
    /\ currentMood = "calm"
    /\ speed = moodParams("calm").speedBase * 10000
    /\ gravity = moodParams("calm").grav
    /\ player = startPlayer
    /\ keys = [left |-> FALSE, right |-> FALSE]
    /\ obstacles = << >> /\ coins = << >> /\ particles = << >>
    /\ decor = buildHills(InitSpeed * 10000, bd)
    /\ moodFX = buildPools("calm")
    /\ lastEvent = NoEvent
    /\ nextId = 0
    /\ refresh \in R
    /\ op = "init"
    /\ fr = NoFrame
    /\ ai = NoAI
    /\ hist = [jumps |-> << >>, runs |-> 0, overs |-> {}, hi0 |-> hiScore,
               credited |-> {}, airTime |-> 0, reqAt |-> -1, reqAge |-> -1,
               landReq |-> -1, runOvers |-> 0, back |-> 0, spawnAt |-> -1,
               startMood |-> "calm", owed |-> 0, worthSum |-> 0, held |-> FALSE]

\* ----------------------------------------------------------------- draws
\* One record of random draws per spawn event (every Math.random() of
\* spawnLogic and of the pattern generators), one per hill, one sequence per
\* particle burst.
BaseDraw ==
    [r |-> 100, coin |-> 900, single |-> 300, baseH |-> 500, w |-> 500, sign |-> 700,
     rad |-> 500, y |-> 500, vy |-> 500, phase |-> 0,
     gap |-> 500, h |-> 500, gate |-> 500, gy |-> 500, gateW |-> 500,
     cy |-> 0, n |-> 0, worth |-> <<500, 50, 500, 500, 500, 500, 500, 500>>]

BuildDraw == [p |-> 500, x |-> 0, w |-> 500, s |-> 500]
NoHill == {BuildDraw}
LifeDraws == <<0, 999>>

\* -------------------------------------------------------- specifications
\* Spec: one whole run at the frame cap.  Frames come 33 ms or more apart, the
\* right key is pressed or released before the run, jump requests arrive on a
\* grid of frame times, a spawn event draws one of GameDraws.
MaxRunTime == 2310
JumpGrid == 330
LateFrame == 50

GameDraws ==
    { [BaseDraw EXCEPT !.coin = 200],
      [BaseDraw EXCEPT !.r = 500],
      [BaseDraw EXCEPT !.r = 900, !.gate = 100, !.coin = 200],
      [BaseDraw EXCEPT !.single = 800] }

Init == InitWith(BuildDraw, {DtCap})

Frame ==
    /\ playing /\ ~paused => runTime < MaxRunTime
    /\ \E d \in {refresh, LateFrame} : Loop(d, GameDraws, NoHill, LifeDraws)

Start == hist.runs = 0 /\ StartGame(BuildDraw)
Jump == runTime % JumpGrid = 0 /\ player.jumpBuf = 0 /\ JumpRequest
Key == ~playing /\ SetKeys(FALSE, ~keys.right)

Next ==
    \/ Frame
    \/ Start
    \/ Jump
    \/ Key

Spec == Init /\ [][Next]_vars

\* SpecRuns: the life cycle.  startGame, pauseGame and resetGame are called in
\* any state, the mood and the right key change between runs, a spawn event
\* draws one of RunDraws, nobody jumps.
MaxRuns == 2
RunDraws == { BaseDraw }

FrameRuns ==
    /\ playing /\ ~paused => runTime < MaxRunTime
    /\ \E d \in {refresh, LateFrame} : Loop(d, RunDraws, NoHill, LifeDraws)

StartRuns == hist.runs < MaxRuns /\ StartGame(BuildDraw)
Pause == PauseGame
Reset == ResetGame(BuildDraw)
Mood == ~playing /\ UNCHANGED ai /\ \E m \in Moods : SetMood(m, BuildDraw)

NextRuns ==
    \/ FrameRuns
    \/ StartRuns
    \/ Pause
    \/ Reset
    \/ Mood
    \/ Key

SpecRuns == Init /\ [][NextRuns]_vars

\* SpecJump: jump timing.  The display runs at one of JumpRates, a jump
\* request arrives between any two frames, the run is cut after MaxJumpTime.
MaxJumpTime == 1200
JumpRates == {30, 33}

InitJump == InitWith(BuildDraw, JumpRates)

FrameJump ==
    /\ playing /\ ~paused => runTime < MaxJumpTime
    /\ Loop(refresh, {BaseDraw}, NoHill, LifeDraws)

JumpAny == player.jumpBuf < JumpBufTime /\ JumpRequest

NextJump ==
    \/ FrameJump
    \/ Start
    \/ JumpAny

SpecJump == InitJump /\ [][NextJump]_vars


\* SpecTab: the tab is hidden and shown again at any moment of the life
\* cycle, between frames, startGame, pauseGame and resetGame calls.
MaxTabTime == 660

FrameTab ==
    /\ playing /\ ~paused => runTime < MaxTabTime
    /\ Loop(refresh, RunDraws, NoHill, LifeDraws)

Hide == VisibilityChange(TRUE)
Show == VisibilityChange(FALSE)

NextTab ==
    \/ FrameTab
    \/ StartRuns
    \/ Pause
    \/ Reset
    \/ Hide
    \/ Show

SpecTab == Init /\ [][NextTab]_vars

\* SpecMood: one run during which setMood() is called with any value, a mood
\* or not, before the run and at the times of MoodGrid; a spawn event draws
\* one of MoodDraws, one per pattern generator.
MaxMoodTime == 1650
MoodGrid == 660

MoodDraws ==
    { [BaseDraw EXCEPT !.coin = 200],
      [BaseDraw EXCEPT !.r = 500],
      [BaseDraw EXCEPT !.r = 900, !.gate = 200],
      [BaseDraw EXCEPT !.single = 800] }

FrameMood ==
    /\ playing /\ ~paused => runTime < MaxMoodTime
    /\ Loop(refresh, MoodDraws, NoHill, LifeDraws)

MoodAny ==
    /\ runTime % MoodGrid = 0
    /\ op # "mood"
    /\ UNCHANGED ai
    /\ \E m \in MoodValues : SetMood(m, BuildDraw)

NextMood ==
    \/ FrameMood
    \/ Start
    \/ MoodAny

SpecMood == Init /\ [][NextMood]_vars

\* SpecClock: the frame clock.  loop(ts) is called with a timestamp that is
\* 33 ms later than the previous one, 5 s later (a frame drop), or 17 ms
\* earlier; at most MaxBack frames of a run go backwards.
MaxClockTime == 660
MaxBack == 2
ClockGaps == {-17, 33, 5000}

FrameClock ==
    /\ playing /\ ~paused => runTime < MaxClockTime
    /\ \E d \in ClockGaps :
          /\ d < 0 => hist.back < MaxBack
          /\ Loop(d, {BaseDraw}, NoHill, LifeDraws)

NextClock ==
    \/ FrameClock
    \/ Start

SpecClock == Init /\ [][NextClock]_vars

\* SpecHop: one vertical hop.  The display runs at a constant frame step of
\* 1 to 33 ms, the run starts in the initial mood (Calm), one jump request
\* arrives before its first frame and no other input follows.
MaxHopTime == 1000
HopRates == 1..DtCap

InitHop == InitWith(BuildDraw, HopRates)

FrameHop ==
    /\ playing => (player.jumpBuf > 0 \/ runTime > 0) /\ runTime < MaxHopTime
    /\ Loop(refresh, {BaseDraw}, NoHill, LifeDraws)

JumpHop == playing /\ runTime = 0 /\ player.jumpBuf = 0 /\ JumpRequest

NextHop ==
    \/ FrameHop
    \/ Start
    \/ JumpHop

SpecHop == InitHop /\ [][NextHop]_vars

\* SpecMove: one run with every combination of held directions.  The held
\* directions change, and jump requests arrive, before the run and at the
\* times of MoveGrid.
MaxMoveTime == 990
MoveGrid == 330

FrameMove ==
    /\ playing /\ ~paused => runTime < MaxMoveTime
    /\ Loop(refresh, {BaseDraw}, NoHill, LifeDraws)

KeyMove ==
    /\ runTime % MoveGrid = 0
    /\ \E l, r \in BOOLEAN : SetKeys(l, r)

JumpMove == runTime % MoveGrid = 0 /\ player.jumpBuf = 0 /\ JumpRequest

NextMove ==
    \/ FrameMove
    \/ Start
    \/ KeyMove
    \/ JumpMove

SpecMove == Init /\ [][NextMove]_vars

\* SpecLong: one long run on the ground, in any of the three moods.  Every
\* spawn event draws a high drone (and, when the mood's coinRate lets the
\* draw pass, a high coin arc) which the grounded player passes under, and a
\* hill is drawn at the times of HillGrid.
MaxLongTime == 50160
HillGrid == 1980

HighDrone == [BaseDraw EXCEPT !.r = 500, !.y = 999]
SomeHill == [BuildDraw EXCEPT !.p = 0, !.s = 0]

FrameLong ==
    /\ playing /\ ~paused => runTime < MaxLongTime
    /\ Loop(refresh, {HighDrone},
            IF runTime % HillGrid = 0 THEN {SomeHill} ELSE NoHill, LifeDraws)

NextLong ==
    \/ FrameLong
    \/ Start
    \/ Mood

SpecLong == Init /\ [][NextLong]_vars

\* SpecGeom: the collision tests on their own.  A state of a run with one
\* obstacle and one coin at whole-pixel positions around the edges and the
\* corners of the player rectangle; Collide applies the tests of
\* handleCollisions to it.
GeomBlock(x) == Block(x * PX, (576 - 96 - 60) * PX, 50 * PX, 60 * PX)
GeomGate(x, y) == Gate(x * PX, y * PX, 140 * PX, 12 * PX)
GeomDrone(x, y) == Drone(x * PX, y * PX, 25 * PX, 70 * VU, 0)

\* py = player.y in px, o = the obstacle
GeomCases ==
    {[py |-> 428, o |-> GeomBlock(160 + dx)] : dx \in {-51, -50, -49, 45, 46, 47}}
    \cup {[py |-> 368 + k, o |-> GeomBlock(180)] : k \in {-1, 0, 1}}
    \cup {[py |-> 212 + k, o |-> GeomGate(100, 200)] : k \in {-1, 0, 1}}
    \cup {[py |-> 205, o |-> GeomGate(206 + k, 200)] : k \in {-1, 0, 1}}
    \cup {[py |-> 300, o |-> GeomDrone(206 + q[1], 300 - q[2])] :
             q \in {<<15, 20>>, <<15, 21>>, <<16, 20>>, <<25, 0>>, <<26, 0>>,
                    <<0, 25>>, <<0, 26>>, <<-10, -10>>}}

\* the coin's centre, left of and above the player's top left corner
GeomCoins == {<<9, 0>>, <<10, 0>>, <<0, 9>>, <<0, 10>>, <<6, 6>>, <<7, 6>>, <<-5, -5>>}

InitGeom ==
    /\ playing = TRUE /\ paused = FALSE
    /\ runTime = 3300 /\ score = 2 * 3300 /\ timeSinceSpawn = 0
    /\ hiScore = 0 /\ stored = -1
    /\ currentMood = "calm"
    /\ speed = moodParams("calm").speedBase * 10000 + 8 * 3300
    /\ gravity = moodParams("calm").grav
    /\ keys = [left |-> FALSE, right |-> FALSE]
    /\ \E g \in GeomCases, q \in GeomCoins :
          /\ player = [startPlayer EXCEPT !.y = g.py * PX,
                                          !.onGround = (g.py * PX = groundY - playerH),
                                          !.jumpsLeft = IF g.py * PX = groundY - playerH
                                                        THEN 2 ELSE 1]
          /\ obstacles = << g.o >>
          /\ coins = << [id |-> 0, x |-> StartX - q[1] * PX, y |-> (g.py - q[2]) * PX,
                         r |-> 9 * PX, worth |-> 1, born |-> 0] >>
    /\ particles = << >>
    /\ decor = << >>
    /\ moodFX = buildPools("calm")
    /\ lastEvent = emitState(TRUE, FALSE)
    /\ nextId = 1
    /\ refresh = DtCap
    /\ op = "init"
    /\ fr = NoFrame
    /\ ai = NoAI
    /\ hist = [jumps |-> << >>, runs |-> 1, overs |-> {}, hi0 |-> 0,
               credited |-> {}, airTime |-> 0, reqAt |-> -1, reqAge |-> -1,
               landReq |-> -1, runOvers |-> 0, back |-> 0, spawnAt |-> -1,
               startMood |-> "calm", owed |-> 0, worthSum |-> 0, held |-> FALSE]

Collide ==
    /\ UNCHANGED ai
    /\ op = "init"
    /\ op' = "collide"
    /\ fr' = [NoFrame EXCEPT !.hit = firstHit(obstacles, player, 1),
                             !.over = coinsOver(coins, playerRect(player))]
    /\ UNCHANGED <<playing, paused, score, hiScore, stored, runTime, timeSinceSpawn,
                   speed, gravity, player, keys, obstacles, coins, decor, particles,
                   moodFX, currentMood, lastEvent, nextId, refresh, hist>>

NextGeom == Collide

SpecGeom == InitGeom /\ [][NextGeom]_vars

\* -------------------------------------------------------------- detector
gameVars == <<playing, paused, score, hiScore, stored, runTime, timeSinceSpawn,
              speed, gravity, player, keys, obstacles, coins, decor, particles,
              moodFX, currentMood, lastEvent, nextId, refresh, op, fr, hist>>

clamp01(v) == Max(0, Min(1000000, v))

\* ema(key, value), on the smoothed score x
ema(x, value) == x + (Alpha * (value - x)) \div 1000

\* commitMood's next
nextMood(h, s) ==
    IF h > 500000 /\ h > s + 120000 THEN "happy"
    ELSE IF s > 500000 /\ s > h + 100000 THEN "stressed"
    ELSE "calm"

shouldCommitAlways(next, mood) == TRUE

\* commitMood: if (next !== STATE.mood)
shouldCommit(next, mood) == next # mood

\* detect() up to commitMood(); f is the face it sees (its blendshape
\* channels smile, jawOpen, browLower); f.seen is false for no face
detect(a, f) ==
    IF ~f.seen
    THEN [a EXCEPT !.h = ema(@, 150000), !.s = ema(@, 150000)]
    ELSE IF ~a.calibrated
    THEN LET n == a.calibSamples + 1
         IN [a EXCEPT !.calibSamples = n,
                      !.calib = [jawOpen0 |-> @.jawOpen0 + (f.jawOpen - @.jawOpen0) \div n,
                                 browLower0 |-> @.browLower0
                                                + (f.browLower - @.browLower0) \div n,
                                 smile0 |-> @.smile0 + (f.smile - @.smile0) \div n],
                      !.calibrated = (n >= CalibSamples),
                      !.h = ema(@, 200000), !.s = ema(@, 200000)]
    ELSE LET smileN == clamp01(f.smile - a.calib.smile0 + 50000)
             jawOpenN == clamp01(f.jawOpen - a.calib.jawOpen0 + 20000)
             browLowN == clamp01(f.browLower - a.calib.browLower0 + 20000)
             happyScore == clamp01((850 * smileN + 150 * jawOpenN) \div 1000)
             stressScore == clamp01((650 * browLowN + 350 * (1000000 - jawOpenN)) \div 1000)
         IN [a EXCEPT !.h = ema(@, happyScore), !.s = ema(@, stressScore)]

\* one sample of the tick loop: detect(videoEl, ts) with a ready video
Detect(f) ==
    /\ ai.running /\ ai.made > 0
    /\ \E d \in {detect(ai, f)} :
       \E next \in {nextMood(d.h, d.s)} :
          /\ ai' = [d EXCEPT !.mood = next,
                             !.last = [kind |-> IF f.seen THEN "face" ELSE "noface",
                                       calibrated |-> ai.calibrated,
                                       calibSamples |-> ai.calibSamples,
                                       mood |-> ai.mood, next |-> next],
                             !.man = IF shouldCommit(next, ai.mood) THEN FALSE ELSE @,
                             !.n = @ + 1,
                             !.nf = IF f.seen THEN @ ELSE @ + 1]
          /\ IF shouldCommit(next, ai.mood)
             THEN SetMood(next, BuildDraw)
             ELSE UNCHANGED gameVars

recalibrateNeutral ==
    /\ ai' = [ai EXCEPT !.calibrated = FALSE, !.calibSamples = 0,
                        !.calib = [jawOpen0 |-> 0, browLower0 |-> 0, smile0 |-> 0],
                        !.last = [@ EXCEPT !.kind = "none"],
                        !.recal = @ + 1]
    /\ UNCHANGED gameVars

\* keys 1 / 2 / 3 of initMoodControls
KeyMood(m) ==
    /\ ai' = [ai EXCEPT !.man = TRUE, !.last = [@ EXCEPT !.kind = "none"],
                        !.keys = @ + 1]
    /\ SetMood(m, BuildDraw)

\* enableMoodAI(videoEl), call number Len(ai.calls) + 1, up to its first
\* await.  A call is [pc, url, tried, out, got, ret, late, started]: pc = the
\* await it is suspended at ("import", "resolver", "fetch", "create") or
\* "done", url = the index of the model URL being fetched, tried = the URLs
\* fetched so far in order and out = how each fetch ended, got = what
\* loadFirstAvailable returned (0: not yet, -1: null, u: the bytes of URL u),
\* ret = the value returned ("none" while pending), late = whether the call
\* was made with STATE.enabled set, started = whether the call created a
\* FaceLandmarker and called loop()
EnableCall ==
    /\ ai' = [ai EXCEPT !.calls = Append(@,
                 [pc |-> IF ai.enabled THEN "done" ELSE "import",
                  url |-> 0, tried |-> << >>, out |-> << >>, got |-> 0,
                  ret |-> IF ai.enabled THEN "true" ELSE "none",
                  late |-> ai.enabled, started |-> FALSE])]
    /\ UNCHANGED gameVars

\* await import(...) settles for call i
EnableImport(i, ok) ==
    /\ i \in 1..Len(ai.calls) /\ ai.calls[i].pc = "import"
    /\ ai' = [ai EXCEPT !.calls[i] =
                 IF ok THEN [@ EXCEPT !.pc = "resolver"]
                 ELSE [@ EXCEPT !.pc = "done", !.ret = "false"]]
    /\ UNCHANGED gameVars

\* await FilesetResolver.forVisionTasks(...) settles; loadFirstAvailable
\* starts with the first URL
EnableResolver(i, ok) ==
    /\ i \in 1..Len(ai.calls) /\ ai.calls[i].pc = "resolver"
    /\ ai' = [ai EXCEPT !.calls[i] =
                 IF ok THEN [@ EXCEPT !.pc = "fetch", !.url = 1]
                 ELSE [@ EXCEPT !.pc = "done", !.ret = "false"]]
    /\ UNCHANGED gameVars

EnableFetchNoFallback(i, res) ==
    /\ i \in 1..Len(ai.calls) /\ ai.calls[i].pc = "fetch"
    /\ ai' = [ai EXCEPT !.calls[i] =
                 IF res = "ok"
                 THEN [@ EXCEPT !.pc = "create", !.tried = Append(@, ai.calls[i].url),
                                !.out = Append(@, res), !.got = ai.calls[i].url]
                 ELSE [@ EXCEPT !.pc = "done", !.tried = Append(@, ai.calls[i].url),
                                !.out = Append(@, res), !.got = -1, !.ret = "false"]]
    /\ UNCHANGED gameVars

\* loadFirstAvailable: the fetch of the current URL settles with res =
\* "ok" (OK status and the body read), "body" (OK status, arrayBuffer()
\* rejects), "http" (not OK) or "neterr" (fetch rejects); after the last URL
\* it returns null and enableMoodAI returns false
EnableFetch(i, res) ==
    /\ i \in 1..Len(ai.calls) /\ ai.calls[i].pc = "fetch"
    /\ ai' = [ai EXCEPT !.calls[i] =
                 IF res = "ok"
                 THEN [@ EXCEPT !.pc = "create", !.tried = Append(@, ai.calls[i].url),
                                !.out = Append(@, res), !.got = ai.calls[i].url]
                 ELSE IF ai.calls[i].url < ModelUrls
                 THEN [@ EXCEPT !.tried = Append(@, ai.calls[i].url),
                                !.out = Append(@, res), !.url = @ + 1]
                 ELSE [@ EXCEPT !.pc = "done", !.tried = Append(@, ai.calls[i].url),
                                !.out = Append(@, res), !.got = -1, !.ret = "false"]]
    /\ UNCHANGED gameVars

\* await FaceLandmarker.createFromOptions(...) settles; then enabled = true,
\* the calibration is reset and loop(videoEl) starts a tick chain
EnableCreate(i, ok) ==
    /\ i \in 1..Len(ai.calls) /\ ai.calls[i].pc = "create"
    /\ ai' = IF ok
             THEN [ai EXCEPT !.calls[i] = [@ EXCEPT !.pc = "done", !.ret = "true",
                                                  !.started = TRUE],
                             !.made = @ + 1, !.enabled = TRUE,
                             !.calibrated = FALSE, !.calibSamples = 0,
                             !.calib = [jawOpen0 |-> 0, browLower0 |-> 0, smile0 |-> 0],
                             !.running = TRUE, !.loops = @ + 1]
             ELSE [ai EXCEPT !.calls[i] = [@ EXCEPT !.pc = "done", !.ret = "false"]]
    /\ UNCHANGED gameVars

\* SpecDetect: Mood AI is enabled once and every load succeeds; the user
\* holds a neutral face while the detector calibrates and smiles or frowns
\* afterwards; at most MaxNoFace samples see no face and recalibrateNeutral
\* is called at most MaxRecal times.  The game stays on its start screen.
MaxDetect == 19
MaxNoFace == 1
MaxRecal == 1

NoFace == [seen |-> FALSE, smile |-> 0, jawOpen |-> 0, browLower |-> 0]
Neutral == [seen |-> TRUE, smile |-> 20000, jawOpen |-> 20000, browLower |-> 20000]
Smile == [seen |-> TRUE, smile |-> 800000, jawOpen |-> 200000, browLower |-> 20000]
Frown == [seen |-> TRUE, smile |-> 20000, jawOpen |-> 20000, browLower |-> 800000]

EnableDetect == Len(ai.calls) = 0 /\ EnableCall

LoadDetect ==
    \E i \in 1..Len(ai.calls) :
       \/ EnableImport(i, TRUE)
       \/ EnableResolver(i, TRUE)
       \/ EnableFetch(i, "ok")
       \/ EnableCreate(i, TRUE)

SampleDetect ==
    /\ ai.n < MaxDetect
    /\ \E f \in (IF ai.calibrated THEN {Smile, Frown} ELSE {Neutral})
                \cup (IF ai.nf < MaxNoFace THEN {NoFace} ELSE {}) :
          Detect(f)

RecalDetect == ai.calibrated /\ ai.recal < MaxRecal /\ recalibrateNeutral

NextDetect ==
    \/ EnableDetect
    \/ LoadDetect
    \/ SampleDetect
    \/ RecalDetect

SpecDetect == Init /\ [][NextDetect]_vars

\* SpecManual: Mood AI is enabled once and every load succeeds; the user
\* holds a neutral face while the detector calibrates and smiles afterwards,
\* and presses one of the keys 1 / 2 / 3 at most MaxKeys times at any moment.
MaxManualDetect == 16
MaxKeys == 2

SampleManual ==
    /\ ai.n < MaxManualDetect
    /\ \E f \in (IF ai.calibrated THEN {Smile} ELSE {Neutral}) : Detect(f)

KeyManual ==
    /\ ai.keys < MaxKeys
    /\ \E m \in Moods : KeyMood(m)

NextManual ==
    \/ EnableDetect
    \/ LoadDetect
    \/ SampleManual
    \/ KeyManual

SpecManual == Init /\ [][NextManual]_vars

\* SpecEnable: enableMoodAI is called MaxCalls times at any moments, and every
\* await of every call settles at any moment, with success or failure.
MaxCalls == 2
FetchResults == {"ok", "body", "http", "neterr"}

EnableAny == Len(ai.calls) < MaxCalls /\ EnableCall

ImportAny == \E i \in 1..Len(ai.calls) : \E ok \in BOOLEAN : EnableImport(i, ok)

ResolverAny == \E i \in 1..Len(ai.calls) : \E ok \in BOOLEAN : EnableResolver(i, ok)

FetchAny == \E i \in 1..Len(ai.calls) : \E res \in FetchResults : EnableFetch(i, res)

CreateAny == \E i \in 1..Len(ai.calls) : \E ok \in BOOLEAN : EnableCreate(i, ok)

NextEnable ==
    \/ EnableAny
    \/ ImportAny
    \/ ResolverAny
    \/ FetchAny
    \/ CreateAny

SpecEnable == Init /\ [][NextEnable]_vars

\* SpecNotify: whole runs up to their game-over, with the tab hidden and
\* shown again, pauseGame, resetGame and startGame called at any moment; the
\* right key is pressed or released between runs.
MaxNotifyTime == 2310

FrameNotify ==
    /\ playing /\ ~paused => runTime < MaxNotifyTime
    /\ Loop(refresh, RunDraws, NoHill, LifeDraws)

NextNotify ==
    \/ FrameNotify
    \/ StartRuns
    \/ Pause
    \/ Reset
    \/ Hide
    \/ Show
    \/ Key

SpecNotify == Init /\ [][NextNotify]_vars

\* SpecHold: jump requests arrive only while the game is paused or on the
\* start screen; pauseGame, resetGame and startGame are called at any
\* moment and any number of frames pass during a pause.
MaxHoldTime == 660

FrameHold ==
    /\ playing /\ ~paused => runTime < MaxHoldTime
    /\ Loop(refresh, RunDraws, NoHill, LifeDraws)

JumpHold ==
    /\ paused \/ ~playing
    /\ player.jumpBuf < JumpBufTime
    /\ JumpRequest

NextHold ==
    \/ FrameHold
    \/ StartRuns
    \/ Pause
    \/ Reset
    \/ JumpHold

SpecHold == Init /\ [][NextHold]_vars

\* ================================================================ claims
\* ---- C1 (SpecJump)
\* C1: Jump budget.  For every sequence of frames and jump requests during
\* play, player.jumpsLeft is 0, 1 or 2, and the jumps performed since the
\* player was last grounded are at most one ground jump (vy = -700) followed
\* by at most one air jump (vy = -650).
JumpBudget ==
    /\ player.jumpsLeft \in {0, 1, 2}
    /\ hist.jumps \in {<< >>, <<GroundJumpVy>>, <<GroundJumpVy, AirJumpVy>>}

\* both jumps are spent and one more request is pending in the air
JumpBudgetSpent ==
    /\ hist.jumps = <<GroundJumpVy, AirJumpVy>>
    /\ ~player.onGround /\ player.jumpsLeft = 0
    /\ player.jumpBuf > 0 /\ fr.ran /\ fr.jump = "none"

\* ---- C2 (Spec)
\* C2: Collision termination.  In any update() frame in which, after player
\* physics and world scrolling, the player rectangle overlaps a block or gate
\* rectangle or a drone circle, playing is false at the end of that frame and
\* the score is the one the frame had before the collision pass: no coin worth
\* was added.
CollisionTermination ==
    fr.ran /\ fr.overlap =>
        /\ ~playing
        /\ fr.hit
        /\ score = fr.scorePre
        /\ fr.picked = << >>

\* a frame that ends the run while the player also overlaps a coin
HitOverCoin == fr.ran /\ fr.overlap /\ fr.over # {} /\ ~playing

\* ---- C3 (SpecRuns)
\* C3: Monotonic high score.  Across startGame, resetGame, pauseGame, frames
\* and game-overs, hiScore never decreases, and it equals the maximum of the
\* value loaded at startup and floor(score) of every run that ended in
\* game-over so far.
MonotonicHiScore ==
    /\ [](hiScore = MaxOf(hist.overs \cup {hist.hi0}))
    /\ [][hiScore' >= hiScore]_vars

\* a game-over whose score is below the best score, after one that raised it
LowerGameOver ==
    /\ fr.ran /\ fr.hit
    /\ Floor1000(score) < hiScore
    /\ hiScore > hist.hi0
    /\ Cardinality(hist.overs) >= 2

\* ---- C4 (Spec)
\* C4: Coin credited exactly once.  In a frame without an obstacle hit, every
\* coin overlapping the player is credited its worth to score exactly once,
\* no other coin is credited, and the coin is absent from the coins collection
\* at the end of that frame; no coin credited earlier in the run is ever
\* credited again, and none is left in the collection.
CoinCreditedOnce ==
    /\ fr.ran /\ ~fr.hit =>
          /\ SeqRange(fr.picked) = fr.over
          /\ Len(fr.picked) = Cardinality(fr.over)
          /\ score = fr.scorePre + 1000 * fr.worthOver
          /\ \A i \in 1..Len(coins) : coins[i].id \notin fr.over
    /\ ~fr.recredit
    /\ \A i \in 1..Len(coins) : coins[i].id \notin hist.credited

\* a frame without a hit in which a coin is picked up while others remain
CoinPicked ==
    /\ fr.ran /\ ~fr.hit /\ fr.over # {}
    /\ score > fr.scorePre
    /\ coins # << >>

JumpBufferingAsStated ==
    (fr.ran /\ fr.pre.onGround /\ fr.landReq >= 0 /\ fr.landReq < JumpBufTime)
    => fr.jump = "ground"

\* C6: Jump buffering, amended.  A jump request issued while the player is
\* airborne and not consumed by an air jump results in a ground jump (vy =
\* -700, jumpsLeft becomes 1) in the first update after the frame in which the
\* player lands if and only if the frame times of the updates from the request
\* through that update sum to less than 0.18 s.
JumpBuffering ==
    fr.ran /\ fr.pre.onGround /\ fr.landReq >= 0 =>
        /\ fr.jump = "ground" <=> fr.landReq + fr.dt < JumpBufTime
        /\ fr.jump = "ground" =>
              /\ fr.jumpVy = GroundJumpVy
              /\ player.jumpsLeft = 1 /\ ~player.onGround /\ player.jumpBuf = 0

\* a request buffered in the air was honoured right after the landing
BufferedJump ==
    /\ fr.ran /\ fr.pre.onGround /\ fr.landReq > 0
    /\ fr.jump = "ground" /\ player.jumpsLeft = 1

\* ---- C7 (SpecRuns)
\* C7: Update is skipped unless Playing and not Paused.  Across an animation
\* frame in which playing is false or paused is true, runTime, score, speed,
\* timeSinceSpawn, the player and the obstacle, coin and particle collections
\* are unchanged by loop().
UpdateSkipped ==
    [][(op' = "loop" /\ (~playing \/ paused)) =>
          /\ ~fr'.ran
          /\ UNCHANGED <<runTime, score, speed, timeSinceSpawn, player,
                         obstacles, coins, particles>>]_vars

\* a frame went by while a run with some history was paused
PausedFrame ==
    /\ op = "loop" /\ ~fr.ran
    /\ playing /\ paused
    /\ runTime > 0 /\ obstacles # << >>

\* ---- C8 (SpecRuns)
\* C8: startGame() from any state yields playing = true, paused = false,
\* obstacles, coins and particles empty, runTime = 0, timeSinceSpawn = 0,
\* score = 0, speed = speedBase of the current mood, and the player at x = 160
\* on the floor with vx = vy = 0, onGround = true, jumpsLeft = 2, coyote = 0,
\* jumpBuf = 0.
StartGamePost ==
    op = "start" =>
        /\ playing /\ ~paused
        /\ obstacles = << >> /\ coins = << >> /\ particles = << >>
        /\ runTime = 0 /\ timeSinceSpawn = 0 /\ score = 0
        /\ speed = moodParams(currentMood).speedBase * 10000
        /\ player.x = 160 * PX /\ player.y = (VH - 96 - 52) * PX
        /\ player.vx = 0 /\ player.vy = 0
        /\ player.onGround /\ player.jumpsLeft = 2
        /\ player.coyote = 0 /\ player.jumpBuf = 0

\* the second startGame(), in a mood other than the initial one
SecondStart == op = "start" /\ hist.runs = 2 /\ currentMood # "calm"

\* ---- C9 (SpecRuns)
\* C9: pauseGame() only toggles the paused flag: it leaves playing, score,
\* runTime, speed, the player, the held keys, the mood, the best score and all
\* entity collections unchanged, and a second pauseGame() right after the
\* first restores the paused flag, hence the state, from before the first.
PauseToggles ==
    /\ [][op' = "pause" =>
            /\ paused' = ~paused
            /\ UNCHANGED <<playing, score, hiScore, stored, runTime,
                           timeSinceSpawn, speed, gravity, player, keys,
                           obstacles, coins, decor, particles, moodFX,
                           currentMood, nextId>>]_vars
    /\ [][(op = "pause" /\ op' = "pause") => paused' = fr.pausedWas]_vars

\* a running game was paused and resumed
Resumed ==
    /\ op = "pause" /\ fr.pausedWas /\ ~paused
    /\ playing /\ runTime > 0

\* ---- C10 (SpecRuns)
\* C10: resetGame() from any state yields the Idle state: playing = false,
\* paused = false, obstacles, coins and particles empty, runTime = 0, score =
\* 0, timeSinceSpawn = 0, the player in its grounded start state; while
\* playing is false no update() runs, and only startGame() sets playing.
ResetGameIdle ==
    /\ [](op = "reset" =>
            /\ ~playing /\ ~paused
            /\ obstacles = << >> /\ coins = << >> /\ particles = << >>
            /\ runTime = 0 /\ score = 0 /\ timeSinceSpawn = 0
            /\ player = startPlayer)
    /\ [][~playing => (playing' => op' = "start") /\ ~fr'.ran]_vars

\* resetGame() was called after a run that ended in game-over
ResetAfterRun == op = "reset" /\ hist.runs >= 1 /\ hist.overs # {}


\* ---- C11 (SpecTab)
\* C11: Tab-hidden forces Paused.  After a visibilitychange with the document
\* hidden, paused is true whatever it was; a visibilitychange clears no
\* simulation state; no update() runs while paused; only pauseGame(),
\* startGame() or resetGame() clear paused, and the tab becoming visible
\* again leaves paused as it is.
TabHiddenPauses ==
    /\ [](op = "hide" => paused)
    /\ [][op' \in {"hide", "show"} =>
            UNCHANGED <<playing, score, hiScore, stored, runTime, timeSinceSpawn,
                        speed, gravity, player, keys, obstacles, coins, decor,
                        particles, moodFX, currentMood, nextId>>]_vars
    /\ [][paused => ~fr'.ran]_vars
    /\ [][paused /\ ~paused' => op' \in {"pause", "start", "reset"}]_vars
    /\ [][op' = "show" => paused' = paused]_vars

\* hiding the tab paused a run that was under way
HiddenMidRun ==
    /\ op = "hide" /\ ~fr.pausedWas /\ paused
    /\ playing /\ runTime > 0

\* ---- C12 (SpecRuns)
\* C12: Game-over transition.  Every game-over sets playing = false and
\* hiScore = max(hiScore, floor(score)), writes that hiScore to the persisted
\* 'emotionEscapeHi' key, and emits exactly one state notification, which
\* carries playing = false; a frame without game-over emits none, and
\* game-over fires at most once between two startGame() calls.
GameOverTransition ==
    /\ fr.ran /\ fr.hit =>
          /\ ~playing
          /\ hiScore = Max(fr.hiPre, score \div 1000)
          /\ stored = hiScore
          /\ fr.emitted = << [playing |-> FALSE, paused |-> paused] >>
          /\ lastEvent = fr.emitted[1]
    /\ fr.ran /\ ~fr.hit => fr.emitted = << >> /\ playing
    /\ hist.runOvers <= 1
    /\ hist.runOvers = 1 => ~playing

\* the game-over of a second run raised the best score
SecondGameOver ==
    /\ fr.ran /\ fr.hit /\ hist.runs = 2
    /\ hiScore > fr.hiPre /\ fr.hiPre > 0

\* ---- C13 (SpecMood)
\* C13: Mood switch mid-run.  When the mood changes, the mood-change handler
\* leaves the obstacles, the coins, the player, score, runTime and speed (and
\* the run flags, timeSinceSpawn, the particles and the best score)
\* unchanged, and after a change to one of the three moods the ambient pool of
\* that mood alone is populated (10 clouds, 90 stars or 90 rain drops), every
\* other pool being empty.
MoodSwitchMidRun ==
    [][op' = "mood" =>
          /\ UNCHANGED <<obstacles, coins, player, score, runTime, speed, playing,
                         paused, timeSinceSpawn, particles, hiScore, stored, keys>>
          /\ currentMood' \in Moods =>
                moodFX' = [clouds |-> IF currentMood' = "happy" THEN 10 ELSE 0,
                           stars |-> IF currentMood' = "calm" THEN 90 ELSE 0,
                           rain |-> IF currentMood' = "stressed" THEN 90 ELSE 0]]_vars

\* Happy became Stressed while obstacles were on screen
HappyToStressed ==
    /\ op = "mood" /\ fr.moodWas = "happy" /\ currentMood = "stressed"
    /\ playing /\ runTime > 0 /\ obstacles # << >>
    /\ moodFX.rain = 90 /\ moodFX.clouds = 0

\* ---- C14 (SpecMood)
\* C14: Difficulty ordering.  The profiles moodParams returns satisfy
\* spawnRateBase(Happy) >= spawnRateBase(Calm) >= spawnRateBase(Stressed),
\* droneRate(Happy) <= droneRate(Calm) <= droneRate(Stressed), speedBase and
\* gravity strictly increasing and gapBias and coinRate strictly decreasing
\* from Happy to Calm to Stressed; a run starts with the speed and the
\* gravity of its mood's profile.
DifficultyOrdering ==
    LET h == moodParams("happy")
        c == moodParams("calm")
        t == moodParams("stressed")
    IN /\ h.spawnRateBase >= c.spawnRateBase /\ c.spawnRateBase >= t.spawnRateBase
       /\ h.droneRate <= c.droneRate /\ c.droneRate <= t.droneRate
       /\ h.speedBase < c.speedBase /\ c.speedBase < t.speedBase
       /\ h.grav < c.grav /\ c.grav < t.grav
       /\ h.gapBias > c.gapBias /\ c.gapBias > t.gapBias
       /\ h.coinRate > c.coinRate /\ c.coinRate > t.coinRate
       /\ op = "start" =>
             /\ speed = moodParams(currentMood).speedBase * 10000
             /\ gravity = moodParams(currentMood).grav

\* a run started in the hardest mood, with its speed and gravity
StressedStart ==
    /\ op = "start" /\ currentMood = "stressed"
    /\ speed = 360 * 10000 /\ gravity = 1560

\* ---- C15 (SpecMood)
\* C15: For every mood value, a mood or not, the resolved profile has
\* pillarRate > 0, droneRate > 0 and pillarRate + droneRate < 1, and each of
\* the three pattern generators (block, drone, gap-with-bridge) is selected by
\* some draw r in [0,1); a spawn event picks one of the three.
PatternsSelectable ==
    /\ \A m \in MoodValues :
          LET mp == moodParams(m)
          IN /\ mp.pillarRate > 0 /\ mp.droneRate > 0
             /\ mp.pillarRate + mp.droneRate < 1000
             /\ \A g \in {"block", "drone", "gap"} :
                   \E r \in 0..999 : spawnPattern(mp, r) = g
    /\ fr.ran /\ fr.spawned => fr.pattern \in {"block", "drone", "gap"}
    /\ fr.ran /\ ~fr.spawned => fr.pattern = "none"

\* a spawn event picked the gap-with-bridge generator in the Stressed mood
GapSpawned ==
    /\ fr.ran /\ fr.spawned /\ fr.pattern = "gap"
    /\ currentMood = "stressed"
    /\ \E i \in 1..Len(obstacles) : obstacles[i].type = "gate"

\* ---- C16 (SpecMood)
\* C16: Invalid mood falls back to Calm.  For a current mood value outside
\* {happy, calm, stressed} the difficulty profile equals the Calm profile and
\* the ambient pool buildMoodScenery builds is the Calm pool (90 stars, no
\* clouds, no rain).
InvalidMoodIsCalm ==
    currentMood \notin Moods =>
        /\ moodParams(currentMood) = moodParams("calm")
        /\ op = "mood" => moodFX = [clouds |-> 0, stars |-> 90, rain |-> 0]

\* ---- C17 (SpecClock)
\* C17: dt clamp.  For every pair of consecutive frame timestamps, a
\* timestamp earlier than the previous one and an arbitrarily long gap
\* included, the dt passed to update() lies in [0, 0.033], so runTime and
\* score do not decrease in an update(), and timeSinceSpawn decreases only
\* when a spawn event resets it.
DtClamped ==
    fr.ran =>
        /\ fr.dt >= 0 /\ fr.dt <= DtCap
        /\ runTime >= fr.rtPre
        /\ fr.scorePre >= 0
        /\ fr.spawned \/ timeSinceSpawn >= fr.tssPre

\* ---- C18
\* C18: the profile resolver is pure and total.  Not stated: moodParams is an
\* operator of the model, and every operator returns the same value for the
\* same argument in every state.

\* ---- C19 (SpecHop)
\* C19: Pure vertical hop.  Starting grounded with vy = 0 under Calm gravity
\* 1520, a jump request at t = 0 gives vy = -700 right after jump resolution,
\* and with a constant frame step dt in (0, 0.033] and no further input the
\* player is airborne at the end of every frame until it is grounded again,
\* at a simulated time within one dt of 2*700/1520 s, and stays grounded.
VerticalHop ==
    fr.ran =>
        /\ gravity = 1520
        /\ fr.rtPre = 0 =>
              fr.pre.onGround /\ fr.pre.vy = 0 /\ fr.jump = "ground"
              /\ fr.jumpVy = -700 * VU /\ ~player.onGround
        /\ fr.rtPre > 0 => fr.jump = "none"
        /\ 1520 * runTime < 2 * 700 * 1000 - 1520 * fr.dt => ~player.onGround
        /\ ~fr.pre.onGround /\ player.onGround =>
              /\ 1520 * runTime >= 2 * 700 * 1000 - 1520 * fr.dt
              /\ 1520 * runTime <= 2 * 700 * 1000 + 1520 * fr.dt
        /\ 1520 * runTime >= 2 * 700 * 1000 => player.onGround

\* the hop ended: the player landed at 60 frames a second
HopLanded ==
    /\ fr.ran /\ fr.landed /\ player.onGround /\ ~fr.pre.onGround
    /\ refresh = 16 /\ fr.dt = 16

\* ---- C20 (SpecMove)
\* C20: Player bounds.  At the end of every update(), player.x is in
\* [20, VW-80], player.y <= groundY - player.h and player.vx is in
\* [-260, 260], for every combination of held left and right inputs and of
\* jump requests; with both directions held the player does not accelerate.
PlayerBounds ==
    fr.ran =>
        /\ player.x >= 20 * PX /\ player.x <= (1024 - 80) * PX
        /\ player.y <= (576 - 96 - 52) * PX
        /\ player.vx >= -260 * VU /\ player.vx <= 260 * VU
        /\ keys.left /\ keys.right => Abs(player.vx) <= Abs(fr.pre.vx)

\* the player is pushed against the left bound at full speed, in the air
AtLeftBound ==
    /\ fr.ran /\ player.x = 20 * PX /\ player.vx = -260 * VU
    /\ ~player.onGround /\ keys.left /\ ~keys.right

\* ---- C21 (SpecMood)
\* C21: Mood notification on change.  setMood(m) makes getMood() return m;
\* the registered listener is invoked, and the scenery rebuilt, when the mood
\* value changes, and a setMood call with the value that is already current
\* invokes no listener.
NotifiedOnChange ==
    op = "mood" =>
        /\ fr.moodWas # currentMood => fr.notified = 1
        /\ fr.moodWas = currentMood => fr.notified = 0

\* ---- C22 (Spec)
\* C22: Per-frame order.  Within one update() collisions are tested against
\* the positions after player physics and world scrolling, so a frame ends
\* the run exactly when the player overlaps an obstacle at the end of the
\* frame; the obstacles spawned in a frame are scrolled in that same frame;
\* every particle alive at the end of a frame, those of a coin pickup
\* included, has been aged by the frame's dt; and pruning has run at the end
\* of every frame, the frame of the game-over included.
FrameOrder ==
    fr.ran =>
        /\ fr.hit <=> obstacleOver(obstacles, playerRect(player))
        /\ LET n == Len(fr.spawnedX)
               k == Len(obstacles)
           IN /\ n <= k
              /\ \A i \in 1..n :
                    obstacles[k - n + i].x = fr.spawnedX[i] - (speed * fr.dt) \div 100
        /\ \A i \in 1..Len(particles) :
              particles[i].t >= fr.dt /\ particles[i].t < particles[i].lifespan
        /\ \A i \in 1..Len(obstacles) :
              /\ obstacles[i].x + obstacles[i].w > -180 * PX
              /\ obstacles[i].y < (576 + 400) * PX
        /\ \A i \in 1..Len(coins) : coins[i].x + coins[i].r > -160 * PX
        /\ \A i \in 1..Len(decor) : decor[i].x + decor[i].w > -120 * PX

\* the frame of a game-over in which the filters removed something
PrunedAtGameOver == fr.ran /\ fr.hit /\ fr.pruned > 0 /\ ~playing

\* ---- C23 (SpecLong)
\* C23: Spawn cadence.  A spawn event happens in exactly the frames where
\* timeSinceSpawn plus dt is at least rate = clamp(spawnRateBase -
\* 0.006*runTime, 0.55, 1.15), and it resets timeSinceSpawn to 0; otherwise
\* timeSinceSpawn grows by dt.  Two consecutive spawn events of a run are at
\* least 0.55 s of simulated time apart, and timeSinceSpawn never exceeds
\* 1.15 + 0.033 at the end of a frame.
SpawnCadence ==
    fr.ran =>
        LET base == IF currentMood = "happy" THEN 1100000
                    ELSE IF currentMood = "stressed" THEN 820000
                    ELSE 950000
            ramp == base - 6 * runTime
            rate == IF ramp < 550000 THEN 550000
                    ELSE IF ramp > 1150000 THEN 1150000 ELSE ramp
        IN /\ fr.spawned <=> (fr.tssPre + fr.dt) * 1000 >= rate
           /\ fr.spawned => timeSinceSpawn = 0
           /\ ~fr.spawned => timeSinceSpawn = fr.tssPre + fr.dt
           /\ fr.spawned /\ fr.spawnGap >= 0 => fr.spawnGap >= 550
           /\ timeSinceSpawn <= 1150 + 33

\* a spawn event at the floor of the rate, 0.55 s
SpawnAtFloor ==
    /\ fr.ran /\ fr.spawned /\ fr.spawnGap >= 550 /\ fr.spawnGap < 550 + 33
    /\ currentMood = "stressed"
    /\ 820000 - 6 * runTime < 550000

\* ---- C24 (Spec)
\* C24: Pattern selection.  A spawn event runs exactly one obstacle generator,
\* chosen by cumulative cutoffs on its draw r: the block pattern for r <
\* pillarRate, the drone for pillarRate <= r < pillarRate + droneRate, the
\* gap-with-bridge otherwise.  It adds between 1 and 3 obstacles; a drone is
\* added only by the drone generator, and a gate only after the two pillars of
\* a gap-with-bridge.
PatternSelection ==
    fr.ran /\ fr.spawned =>
        LET n == Len(fr.spawnedX)
            k == Len(obstacles)
            type(i) == obstacles[k - n + i].type
            pillarRate == IF currentMood = "happy" THEN 460
                          ELSE IF currentMood = "stressed" THEN 400 ELSE 450
            droneRate == IF currentMood = "happy" THEN 180
                         ELSE IF currentMood = "stressed" THEN 330 ELSE 250
            r == fr.drawR
        IN /\ n \in 1..3 /\ n <= k
           /\ r < pillarRate =>
                 n <= 2 /\ \A i \in 1..n : type(i) = "block"
           /\ r >= pillarRate /\ r < pillarRate + droneRate =>
                 n = 1 /\ type(1) = "drone"
           /\ r >= pillarRate + droneRate =>
                 /\ n >= 2 /\ type(1) = "block" /\ type(2) = "block"
                 /\ n = 3 => type(3) = "gate"

\* a gap-with-bridge with its gate
GateSpawned ==
    /\ fr.ran /\ fr.spawned /\ Len(fr.spawnedX) = 3
    /\ obstacles[Len(obstacles)].type = "gate"

\* ---- C25 (SpecClock)
\* C25: Scroll speed ramp.  At the end of every frame of a run, speed =
\* speedBase(mood at the last start or reset) + 0.8 * runTime, whatever the
\* mood has become since, and speed is not below what it was before the frame.
SpeedRamp ==
    fr.ran =>
        LET base == IF hist.startMood = "happy" THEN 300
                    ELSE IF hist.startMood = "stressed" THEN 360 ELSE 330
        IN /\ speed = base * 10000 + 8 * runTime
           /\ speed >= fr.speedPre

\* ---- C26 (SpecClock)
\* C26: One request, at most one jump.  A frame that performs a jump ends with
\* jumpBuf = 0; the jumps performed since the latest jump request are at most
\* one, and none before the first request of a run; a jump in a frame that
\* starts grounded is the ground jump (vy = -700), never the air jump.
OneRequestOneJump ==
    /\ hist.owed >= 0
    /\ fr.ran /\ fr.jump # "none" =>
          /\ player.jumpBuf = 0
          /\ fr.pre.onGround => fr.jump = "ground" /\ fr.jumpVy = -700 * 100

\* ---- C27 (SpecJump)
\* C27: Grounded-state invariant and landing event.  At the end of every
\* update(), a grounded player stands on the floor (y = groundY - h) with
\* vy = 0 and jumpsLeft = 2, and an airborne player is above the floor; the
\* landing thump fires only in a frame that starts airborne, ends grounded
\* and reaches the floor with vy > 300.
GroundedState ==
    fr.ran =>
        /\ player.onGround =>
              player.y = (576 - 96 - 52) * PX /\ player.vy = 0 /\ player.jumpsLeft = 2
        /\ ~player.onGround => player.y < (576 - 96 - 52) * PX
        /\ fr.thump =>
              ~fr.pre.onGround /\ player.onGround /\ fr.landVy > 300 * 100

\* a landing with the thump
LandedWithThump == fr.ran /\ fr.thump /\ player.onGround /\ ~fr.pre.onGround

\* ---- C28 (SpecLong)
\* the entities of sq at the indices idx, in their order
KeptAt(sq, idx) ==
    [j \in 1..Cardinality(idx) |->
        sq[CHOOSE i \in idx : Cardinality({m \in idx : m < i}) = j - 1]]

\* C28 as stated: at the end of every update() the collections hold exactly
\* the entities not past the thresholds on x, y and t (obstacles: x < -180 or
\* y > VH + 400; coins: x < -160; decorations: x < -120; particles: t >=
\* lifespan), in their original relative order.
PruningAsStated ==
    fr.ran =>
        /\ obstacles = KeptAt(fr.all.obstacles,
              {i \in 1..Len(fr.all.obstacles) :
                  ~(fr.all.obstacles[i].x < -180 * PX
                    \/ fr.all.obstacles[i].y > (576 + 400) * PX)})
        /\ coins = KeptAt(fr.all.coins,
              {i \in 1..Len(fr.all.coins) : ~(fr.all.coins[i].x < -160 * PX)})
        /\ decor = KeptAt(fr.all.decor,
              {i \in 1..Len(fr.all.decor) : ~(fr.all.decor[i].x < -120 * PX)})
        /\ particles = KeptAt(fr.all.particles,
              {i \in 1..Len(fr.all.particles) :
                  ~(fr.all.particles[i].t >= fr.all.particles[i].lifespan)})

\* C28: Pruning thresholds.  At the end of every update() the collections
\* hold exactly, in their original relative order, the obstacles whose right
\* edge x + w (x for a drone) is beyond -180 and whose y is below VH + 400, the
\* coins whose right edge x + r is beyond -160, the decorations whose right
\* edge x + w is beyond -120, and the particles with t < lifespan.
PruningThresholds ==
    fr.ran =>
        /\ obstacles = KeptAt(fr.all.obstacles,
              {i \in 1..Len(fr.all.obstacles) :
                  /\ fr.all.obstacles[i].x
                        + (IF fr.all.obstacles[i].type = "drone" THEN 0
                           ELSE fr.all.obstacles[i].w) > -180 * PX
                  /\ fr.all.obstacles[i].y < (576 + 400) * PX})
        /\ coins = KeptAt(fr.all.coins,
              {i \in 1..Len(fr.all.coins) :
                  fr.all.coins[i].x + fr.all.coins[i].r > -160 * PX})
        /\ decor = KeptAt(fr.all.decor,
              {i \in 1..Len(fr.all.decor) :
                  fr.all.decor[i].x + fr.all.decor[i].w > -120 * PX})
        /\ particles = KeptAt(fr.all.particles,
              {i \in 1..Len(fr.all.particles) :
                  fr.all.particles[i].t < fr.all.particles[i].lifespan})

\* a hill is removed while another one, already past x = -120, stays
HillPruned ==
    /\ fr.ran /\ Len(decor) < Len(fr.all.decor)
    /\ \E i \in 1..Len(decor) : decor[i].x < -120 * PX

\* ---- C29 (SpecLong)
\* C29: Eventual removal, as a bound on the simulated time an entity stays:
\* while frames of positive dt keep coming, every obstacle is removed within
\* 5.5 s of runTime after it was pushed, every coin within 5 s, every hill
\* within 25 s, and every particle before its elapsed time reaches a lifespan
\* of at most 0.7 s; so all of them are eventually removed.
EventualRemoval ==
    /\ \A i \in 1..Len(obstacles) : runTime - obstacles[i].born <= 5500
    /\ \A i \in 1..Len(coins) : runTime - coins[i].born <= 5000
    /\ \A i \in 1..Len(decor) : runTime - decor[i].born <= 25000
    /\ \A i \in 1..Len(particles) :
          particles[i].t < particles[i].lifespan /\ particles[i].lifespan <= 700

\* a frame removes a hill that was pushed more than 10 s before, and an
\* obstacle
OldHillRemoved ==
    /\ fr.ran
    /\ \E i \in 1..Len(fr.all.decor) :
          /\ fr.all.decor[i].x + fr.all.decor[i].w <= -120 * PX
          /\ runTime - fr.all.decor[i].born > 10000
    /\ Len(decor) < Len(fr.all.decor)

\* ---- C30 (SpecMood)
\* C30: Ambient pool invariant.  In every state, for the moods happy, calm and
\* stressed, exactly the pool of the current mood is populated (10 clouds, 90
\* stars, 90 rain streaks) and the other two are empty; frames of update()
\* leave the sizes as they are.
AmbientPools ==
    /\ currentMood = "happy" => moodFX = [clouds |-> 10, stars |-> 0, rain |-> 0]
    /\ currentMood = "calm" => moodFX = [clouds |-> 0, stars |-> 90, rain |-> 0]
    /\ currentMood = "stressed" => moodFX = [clouds |-> 0, stars |-> 0, rain |-> 90]

\* frames have run after the mood went from happy to stressed within a run
RainAfterClouds ==
    /\ fr.ran /\ playing
    /\ hist.startMood = "happy" /\ currentMood = "stressed"
    /\ moodFX.rain = 90

\* ---- C31 (SpecMood)
\* C31: Mood-dependent pattern tweaks, in both files of the game loop.  In a
\* staggered block pair the second pillar is 140 to the right of the first
\* when the mood is happy and 120 otherwise; a drone's base bob speed is 100
\* when the mood is stressed and 70 otherwise; a gap-with-bridge has its gate
\* when the gate draw is below 0.18 (happy) or 0.28 (otherwise); the ambient
\* update moves the clouds when happy, the stars when calm, the rain when
\* stressed.
MoodTweaks ==
    fr.ran =>
        LET m == currentMood
            tweaked(obs) ==
                /\ fr.pattern = "block" /\ Len(obs) = 2 =>
                      obs[2].x - obs[1].x = (IF m = "happy" THEN 140 ELSE 120) * PX
                /\ fr.pattern = "drone" =>
                      obs[1].vy - 7 * fr.draw.vy
                          = (IF m = "stressed" THEN 100 ELSE 70) * 100
                /\ fr.pattern = "gap" =>
                      (Len(obs) = 3 <=>
                          fr.draw.gate < (IF m = "happy" THEN 180 ELSE 280))
            moves(pool) ==
                /\ m = "happy" => pool = "clouds"
                /\ m = "calm" => pool = "stars"
                /\ m = "stressed" => pool = "rain"
        IN /\ fr.spawned => tweaked(fr.pushed) /\ tweaked(fr.p2.obs)
           /\ moves(fr.pool) /\ moves(fr.p2.pool)

\* ---- C32 (SpecGeom)
\* C32: Collision geometry.  The player collides with a block or a gate
\* exactly when the two rectangles share interior area (touching edges or
\* corners do not collide), and with a drone or a coin exactly when some
\* point of the player rectangle is within the radius of the circle's centre
\* (a circle that only touches the rectangle collides).
CollisionGeometry ==
    op = "collide" =>
        LET ax == player.x \div PX
            ay == player.y \div PX
            o == obstacles[1]
            shares == /\ Max(ax, o.x \div PX) < Min(ax + 46, (o.x + o.w) \div PX)
                      /\ Max(ay, o.y \div PX) < Min(ay + 52, (o.y + o.h) \div PX)
            near(c) == \E qx \in ax..(ax + 46), qy \in ay..(ay + 52) :
                          (c.x \div PX - qx) * (c.x \div PX - qx)
                          + (c.y \div PX - qy) * (c.y \div PX - qy)
                              <= (c.r \div PX) * (c.r \div PX)
        IN /\ fr.hit <=> IF o.type = "drone" THEN near(o) ELSE shares
           /\ fr.over = {coins[i].id : i \in {j \in 1..Len(coins) : near(coins[j])}}

\* a drone whose circle only touches the player's corner collides
TouchingDroneHits ==
    /\ op = "collide" /\ fr.hit /\ obstacles[1].type = "drone"
    /\ LET dx == (obstacles[1].x - player.x) \div PX - 46
           dy == (player.y - obstacles[1].y) \div PX
       IN dx > 0 /\ dy > 0 /\ dx * dx + dy * dy = 25 * 25

\* ---- C33 (SpecClock)
\* C33: Score accounting.  At the end of every frame of a run, score =
\* 2 * runTime plus the worths of the coins picked up so far, every coin is
\* worth 1 or 5, and score is not below what it was before the frame.
ScoreAccounting ==
    fr.ran =>
        /\ score = 2 * runTime + 1000 * hist.worthSum
        /\ \A i \in 1..Len(coins) : coins[i].worth \in {1, 5}
        /\ score >= fr.score0

\* C34: after enableMoodAI or recalibrateNeutral the next 12 samples with a
\* face only calibrate (a sample without a face does not count, calibrated
\* becomes true exactly at the 12th), and the mood the detector holds after a
\* sample taken during calibration is calm.
CalibrationKeepsCalm ==
    /\ ai.enabled => (ai.calibrated <=> ai.calibSamples >= CalibSamples)
    /\ ai.last.kind = "face" /\ ~ai.last.calibrated
          => /\ ai.calibSamples = ai.last.calibSamples + 1
             /\ ai.mood = "calm"
    /\ ai.last.kind = "noface"
          => /\ ai.calibSamples = ai.last.calibSamples
             /\ ai.calibrated = ai.last.calibrated
             /\ ~ai.calibrated => ai.mood = "calm"

\* C37: a sample of the detector calls setMood only when its classification
\* differs from the mood it committed last: when the two are equal the
\* current mood (a manual override included) and the detector's mood are
\* left as they are, otherwise both become the classification.
OverridePersists ==
    [][ai'.n = ai.n + 1 =>
          IF ai'.last.next = ai.mood
          THEN currentMood' = currentMood /\ ai'.mood = ai.mood
          ELSE currentMood' = ai'.last.next /\ ai'.mood = ai'.last.next]_vars

\* C37 witness: a key set a mood, the detector has sampled a face since, and
\* the detector's mood differs from the current mood
OverrideInForce == ai.man /\ ai.last.kind = "face" /\ ai.mood # currentMood

\* C35: whatever the interleaving of the calls of enableMoodAI, at most one
\* FaceLandmarker is created and at most one detection loop is started, and
\* a call made once enabling has completed returns true and starts nothing.
SingleDetectionLoop ==
    /\ ai.made <= 1
    /\ ai.loops <= 1
    /\ \A i \in 1..Len(ai.calls) :
          ai.calls[i].late => ai.calls[i].ret = "true" /\ ~ai.calls[i].started

\* C36 as stated: the URLs are fetched in list order; the bytes returned are
\* those of the first URL whose fetch ended with an OK status, and no later
\* URL is fetched; null is returned exactly when no fetch ended with an OK
\* status; a call whose load returned null returns false and enables nothing.
ModelLoadingAsStated ==
    \A i \in 1..Len(ai.calls) :
       LET c == ai.calls[i]
           okStatus == {u \in 1..Len(c.out) : c.out[u] \in {"ok", "body"}}
       IN /\ c.tried = [u \in 1..Len(c.tried) |-> u]
          /\ c.got > 0 => /\ c.got \in okStatus
                          /\ \A u \in okStatus : c.got <= u
                          /\ Len(c.tried) = c.got
          /\ \A u \in okStatus : Len(c.tried) <= u
          /\ c.got = -1 <=> Len(c.out) = ModelUrls /\ okStatus = {}
          /\ c.got = -1 => c.pc = "done" /\ c.ret = "false" /\ ~c.started

\* C36: the URLs are fetched in list order; the bytes returned are those of
\* the first URL whose fetch ended with an OK status and whose body could be
\* read, and no later URL is fetched; null is returned exactly when no URL
\* got that far; a call whose load returned null returns false and enables
\* nothing.
ModelLoading ==
    \A i \in 1..Len(ai.calls) :
       LET c == ai.calls[i]
           loaded == {u \in 1..Len(c.out) : c.out[u] = "ok"}
       IN /\ c.tried = [u \in 1..Len(c.tried) |-> u]
          /\ Len(c.out) = Len(c.tried)
          /\ c.got > 0 <=> loaded # {}
          /\ c.got > 0 => loaded = {c.got} /\ Len(c.tried) = c.got
          /\ c.got = -1 <=> Len(c.out) = ModelUrls /\ loaded = {}
          /\ c.got = -1 => c.pc = "done" /\ c.ret = "false" /\ ~c.started

\* C36 witness: the first URL answered OK but its body could not be read,
\* the second failed, and the model came from the third
LoadedFromLastUrl ==
    \E i \in 1..Len(ai.calls) :
       /\ ai.calls[i].out = <<"body", "http", "ok">>
       /\ ai.calls[i].got = 3
       /\ ai.calls[i].started

\* C38: every step that changes playing or paused dispatches an 'ee:state'
\* event carrying the new pair, and once an event has been dispatched the
\* pair of the latest event is the current (playing, paused).
StateNotifications ==
    [][/\ playing' # playing \/ paused' # paused
             => lastEvent' = [playing |-> playing', paused |-> paused']
       /\ lastEvent' # NoEvent
             => lastEvent' = [playing |-> playing', paused |-> paused']]_vars

\* C38 witness: the game-over of a second run, the latest event carrying
\* playing = false
NotifiedGameOver ==
    /\ fr.ran /\ fr.hit
    /\ lastEvent = [playing |-> FALSE, paused |-> FALSE]
    /\ hist.runs = 2

\* C39: a jump request sets jumpBuf to 0.18 s in any game state; a frame
\* that skips update() leaves the player as it is; jumpBuf goes down only in
\* an update() or, to 0, in startGame() / resetGame(); and the first update()
\* after a request made while paused performs the jump when the player is
\* on the ground or has jumpsLeft > 0.
HeldJumpPerformed ==
    [][/\ op' = "jump" => player'.jumpBuf = JumpBufTime
       /\ op' = "loop" /\ ~fr'.ran => player' = player
       /\ player'.jumpBuf < player.jumpBuf
             => fr'.ran \/ (op' \in {"start", "reset"} /\ player'.jumpBuf = 0)
       /\ fr'.ran /\ hist.held /\ playing
             => /\ player.jumpBuf = JumpBufTime
                /\ player.onGround \/ player.jumpsLeft > 0
                      => fr'.jump # "none" /\ player'.jumpBuf = 0]_vars

\* C39 witness: a request made during a pause in mid-air was performed as an
\* air jump by the first update() after the resume
HeldAirJump == fr.ran /\ fr.held /\ fr.jump = "air" /\ ~fr.pre.onGround

====
